---------------------------- MODULE Spec2Model ----------------------------
(***************************************************************************)
(* AI Council: the orchestration pipeline of ConcreteOrchestrationLayer,   *)
(* the per-component circuit breakers it creates, and the WebSocket bridge *)
(* (CouncilOrchestrationBridge) that drives it and broadcasts progress     *)
(* events.                                                                 *)
(*                                                                         *)
(* Eleven specifications share the definitions below:                      *)
(*   SpecCB      the circuit breakers alone, driven by calls and the clock;*)
(*   Spec        requests processed one after another by process_request,  *)
(*               directly or through the bridge, breakers carried over;    *)
(*   SpecWide    a single request with a larger decomposition;             *)
(*   SpecArb     the arbitration stage on redundant responses;             *)
(*   SpecMain    AICouncil.process_request with its overall deadline;      *)
(*   SpecFailure handle_failure on failures of every type;                 *)
(*   SpecStats   a user's requests and the cached user statistics;         *)
(*   SpecConc    two requests interleaved in the shared bridge object;     *)
(*   SpecCost    the pre-flight cost estimator and its Redis cache;        *)
(*   SpecHistory GET /history over the requests of one user;               *)
(*   SpecRequests the Request records of POST /process and their tasks.    *)
(***************************************************************************)
EXTENDS Integers, Sequences, FiniteSets, TLC

(***************************************************************************)
(* Bounds of the model.                                                    *)
(***************************************************************************)
\* seconds the model clock advances per Tick
TickSeconds == 15

Min(a, b) == IF a <= b THEN a ELSE b

(***************************************************************************)
(* Circuit breakers.                                                       *)
(***************************************************************************)
Components == {"analysis_engine", "task_decomposer", "arbitration_layer", "synthesis_layer"}

\* a slip in the arbitration breaker's configuration: the threshold of the others
CircuitBreakerConfigSlip(c) ==
    CASE c = "analysis_engine"   -> [failure_threshold |-> 3, recovery_timeout |-> 30, success_threshold |-> 2]
      [] c = "task_decomposer"   -> [failure_threshold |-> 3, recovery_timeout |-> 45, success_threshold |-> 2]
      [] c = "arbitration_layer" -> [failure_threshold |-> 3, recovery_timeout |-> 60, success_threshold |-> 3]
      [] c = "synthesis_layer"   -> [failure_threshold |-> 3, recovery_timeout |-> 30, success_threshold |-> 2]

\* a slip in the synthesis breaker's configuration: a shorter wait, a single trial call
CircuitBreakerConfigHasty(c) ==
    CASE c = "analysis_engine"   -> [failure_threshold |-> 3, recovery_timeout |-> 30, success_threshold |-> 2]
      [] c = "task_decomposer"   -> [failure_threshold |-> 3, recovery_timeout |-> 45, success_threshold |-> 2]
      [] c = "arbitration_layer" -> [failure_threshold |-> 5, recovery_timeout |-> 60, success_threshold |-> 3]
      [] c = "synthesis_layer"   -> [failure_threshold |-> 3, recovery_timeout |-> 15, success_threshold |-> 1]

\* _initialize_circuit_breakers: the configuration of each component's breaker
CircuitBreakerConfig(c) ==
    CASE c = "analysis_engine"   -> [failure_threshold |-> 3, recovery_timeout |-> 30, success_threshold |-> 2]
      [] c = "task_decomposer"   -> [failure_threshold |-> 3, recovery_timeout |-> 45, success_threshold |-> 2]
      [] c = "arbitration_layer" -> [failure_threshold |-> 5, recovery_timeout |-> 60, success_threshold |-> 3]
      [] c = "synthesis_layer"   -> [failure_threshold |-> 3, recovery_timeout |-> 30, success_threshold |-> 2]

\* a breaker as created: CLOSED, nothing recorded.  age is now - opened_at,
\* kept only while OPEN and capped at the recovery timeout.
NewBreaker == [state |-> "CLOSED", failure_count |-> 0, success_count |-> 0, age |-> 0]

\* whether call() lets the protected function run
CBAllows(b, cfg) == b.state # "OPEN" \/ b.age >= cfg.recovery_timeout

\* OPEN -> HALF_OPEN when the recovery timeout has elapsed and a call is attempted
CBEnter(b, cfg) ==
    IF b.state = "OPEN" /\ b.age >= cfg.recovery_timeout
    THEN [b EXCEPT !.state = "HALF_OPEN", !.success_count = 0, !.age = 0]
    ELSE b

\* the protected function returned
CBOnSuccess(b, cfg) ==
    IF b.state = "HALF_OPEN"
    THEN IF b.success_count + 1 >= cfg.success_threshold
         THEN [b EXCEPT !.state = "CLOSED", !.failure_count = 0, !.success_count = 0]
         ELSE [b EXCEPT !.success_count = b.success_count + 1]
    ELSE [b EXCEPT !.failure_count = 0]

\* the protected function raised
CBOnFailure(b, cfg) ==
    IF b.state = "HALF_OPEN"
    THEN [b EXCEPT !.state = "OPEN", !.success_count = 0, !.age = 0]
    ELSE IF b.failure_count + 1 >= cfg.failure_threshold
         THEN [b EXCEPT !.state = "OPEN", !.failure_count = b.failure_count + 1, !.age = 0]
         ELSE [b EXCEPT !.failure_count = b.failure_count + 1]

\* CircuitBreaker.call(fn) where fn succeeds (ok) or raises: the breaker afterwards
CBCall(b, cfg, ok) ==
    IF ~CBAllows(b, cfg) THEN b
    ELSE IF ok THEN CBOnSuccess(CBEnter(b, cfg), cfg)
    ELSE CBOnFailure(CBEnter(b, cfg), cfg)

\* the clock advances by TickSeconds
CBAdvance(b, cfg) ==
    IF b.state = "OPEN" THEN [b EXCEPT !.age = Min(b.age + TickSeconds, cfg.recovery_timeout)] ELSE b

VARIABLES
    cb,        \* resilience_manager.circuit_breakers: component -> breaker
    streak,    \* history: component -> failed calls in a row since CLOSED with no failure (-1: none)
    lastCall,  \* history: the last call made through a breaker (pre: its state before)
    conc,      \* the shared bridge object under two concurrent requests (SpecConc)
    main,      \* AICouncil._execute_with_timeout: the caller and the future it waits for (SpecMain)
    handled,   \* the calls of handle_failure so far, each with what it returned (SpecFailure)
    stats,     \* a user's requests and responses in the database, the cached statistics (SpecStats)
    cost,      \* the cost estimator: prices, its Redis cache, the estimates it returned (SpecCost)
    history,   \* a user's requests and the pages GET /history returned (SpecHistory)
    rows,      \* the Request records POST /process created, their background tasks (SpecRequests)
    reqNo,     \* requests started so far
    pc,        \* where process_request stands
    req,       \* the request being processed: mode, caller, request id; the bridge's current_request_id
    subtasks,  \* the subtasks of the request, in the decomposer's order
    plan,      \* execution_plan: parallel_groups (groups of subtask ids), sequential_order
    cursor,    \* execution: group index, member index, failed_groups
    responses, \* all_responses / agent_responses
    validated, \* validated_responses
    meta,      \* execution_metadata: execution_path, parallel_executions, models_used
    result,    \* how process_request ended: a FinalResponse or an exception
    events,    \* what ws_manager.broadcast_progress has sent, in order
    pending,   \* bridge._pending_routing_assignments
    trace,     \* history of the request: components invoked, partial-failure handling, the last skip decision
    carry      \* history across requests: requests in a row whose synthesis failed,
               \* whether the synthesis breaker refused calls when the request began

histVars == <<streak, lastCall>>
reqVars == <<conc, cost, history, rows, main, handled, stats, reqNo, pc, req, subtasks, plan, cursor, responses, validated, meta, result,
             events, pending, trace, carry>>
vars == <<cb, streak, lastCall, conc, cost, history, rows, main, handled, stats, reqNo, pc, req, subtasks, plan, cursor, responses,
          validated, meta, result, events, pending, trace, carry>>

NoCall == [comp |-> "none", pre |-> "CLOSED", allowed |-> FALSE, ok |-> FALSE, tog |-> 0]

InitBreakers ==
    /\ cb = [c \in Components |-> NewBreaker]

InitHist ==
    /\ streak = [c \in Components |-> 0]
    /\ lastCall = NoCall

(***************************************************************************)
(* The data of a request.                                                  *)
(***************************************************************************)
ExecutionModes == {"fast", "balanced", "best_quality"}
Models == {"M1", "M2"}
TaskTypes == {"reasoning", "code_generation"}
Priorities == {"low", "medium", "high"}

\* model_registry.get_models_for_task_type: no model is registered for code generation
ModelsFor(t) == IF t = "reasoning" THEN Models ELSE {}

\* current_request_id: the bridge's field (0: None)
NoRequest == [mode |-> "balanced", via |-> "core", rid |-> 0, hasGroupHook |-> FALSE, loop |-> FALSE,
              current_request_id |-> 0]
NoMeta == [execution_path |-> << >>, parallel_executions |-> 0, models_used |-> {}]
NoResult ==
    [kind |-> "none", success |-> FALSE, content |-> << >>, overall_confidence |-> 0,
     error_message |-> << >>, models_used |-> {}, execution_metadata |-> NoMeta]
NoCursor == [group |-> 1, member |-> 1, failed_groups |-> 0]
\* ExecutionPlan(parallel_groups, sequential_order)
ExecutionPlan(groups, order) == [parallel_groups |-> groups, sequential_order |-> order]
NoPlan == ExecutionPlan(<< >>, << >>)
\* history: the health and the priority _execute_single_subtask last decided on
NoGate == [health |-> "none", priority |-> "none"]
NoTrace ==
    [invoked |-> {}, bypassed |-> {}, filed |-> FALSE, recommendation |-> "none",
     action |-> "none", failed |-> {}, gate |-> NoGate]
\* the Redis entry of a user's statistics (absent: present = FALSE)
NoEntry == [present |-> FALSE, total_requests |-> 0, responses |-> 0]
\* what get_user_stats served last, and the user's Response records then
NoServed == [present |-> FALSE, served |-> NoEntry, responses |-> 0]
\* a user without requests, nothing cached
NoStats == [requests |-> 0, completed |-> 0, responses |-> 0, cache |-> NoEntry, age |-> 0,
            last |-> NoServed]
\* AICouncil before a request: nothing submitted, nothing returned
NoMain == [state |-> "idle", future |-> "none", mode |-> "balanced", response |-> NoResult]
NoConc == [ai_council |-> 0, current_request_id |-> 0, pending |-> << >>,
           at |-> << >>, layer |-> << >>, captured |-> {}, lost |-> {}, log |-> << >>]

\* prices are in units of 10^-8 dollars per token; estimates in micro-dollars
\* _get_average_model_cost's fallback: 0.000001 dollars per token
FallbackPrice == 100
\* the estimator before any call: no entry in Redis (<< >>: the key is absent),
\* nothing returned; direct: the last two results of estimate_all_modes,
\* cached: the last result of estimate_all_modes_cached
NoCost ==
    [prices |-> [mode \in ExecutionModes |-> FallbackPrice], cache |-> << >>, direct |-> << >>,
     cached |-> [present |-> FALSE, n |-> 0, hit |-> FALSE, estimates |-> << >>]]
\* GET /history before any call (code 0: nothing returned yet); walk: the
\* pages returned by calls for page 1, 2, ... in turn with one limit
NoResponse == [code |-> 0, items |-> << >>, total |-> 0, page |-> 0, pages |-> 0]
NoHistory == [requests |-> << >>, query |-> [page |-> 0, limit |-> 0, mode |-> "any"],
              response |-> NoResponse, walk |-> << >>]

\* the orchestration layer and its callers before a request
InitPipeline ==
    /\ main = NoMain
    /\ handled = << >>
    /\ stats = NoStats
    /\ reqNo = 0
    /\ pc = "idle"
    /\ req = NoRequest
    /\ subtasks = << >>
    /\ plan = NoPlan
    /\ cursor = NoCursor
    /\ responses = << >>
    /\ validated = << >>
    /\ meta = NoMeta
    /\ result = NoResult
    /\ events = << >>
    /\ pending = << >>
    /\ trace = NoTrace
    /\ carry = [synthesis_failures |-> 0, refusing |-> FALSE]

InitIdle ==
    /\ cost = NoCost
    /\ history = NoHistory
    /\ rows = << >>
    /\ InitPipeline

(***************************************************************************)
(* SpecCB: the breakers driven by arbitrary calls and the clock.           *)
(***************************************************************************)
StreakAfter(c, pre, post, allowed, ok) ==
    IF ~allowed THEN streak[c]
    ELSE IF post.state = "CLOSED" /\ post.failure_count = 0 THEN 0
    ELSE IF pre.state = "CLOSED" /\ ~ok /\ streak[c] >= 0 THEN streak[c] + 1
    ELSE -1

\* some caller runs a protected function through component c's breaker
BreakerCall(c, ok) ==
    LET cfg == CircuitBreakerConfig(c)
        pre == cb[c]
        post == CBCall(pre, cfg, ok)
        allowed == CBAllows(pre, cfg)
    IN /\ cb' = [cb EXCEPT ![c] = post]
       /\ streak' = [streak EXCEPT ![c] = StreakAfter(c, pre, post, allowed, ok)]
       /\ lastCall' = [comp |-> c, pre |-> pre.state, allowed |-> allowed, ok |-> ok, tog |-> 1 - lastCall.tog]
       /\ UNCHANGED reqVars

CallSucceeds == \E c \in Components : BreakerCall(c, TRUE)
CallFails == \E c \in Components : BreakerCall(c, FALSE)

Tick ==
    /\ pc \in {"idle", "done"}
    /\ \E c \in Components : cb[c].state = "OPEN" /\ cb[c].age < CircuitBreakerConfig(c).recovery_timeout
    /\ cb' = [c \in Components |-> CBAdvance(cb[c], CircuitBreakerConfig(c))]
    /\ UNCHANGED histVars
    /\ UNCHANGED reqVars

InitCB == InitBreakers /\ InitHist /\ InitIdle /\ conc = NoConc
NextCB == CallSucceeds \/ CallFails \/ Tick
SpecCB == InitCB /\ [][NextCB]_vars

(***************************************************************************)
(* process_request of ConcreteOrchestrationLayer, stage by stage.          *)
(***************************************************************************)
\* a method of a component is invoked; "bypassed" records an invocation made
\* while the component's breaker is OPEN with its recovery timeout not elapsed
Invoked(tr, c, method) ==
    [tr EXCEPT !.invoked = @ \cup {<<c, method>>},
               !.bypassed = IF ~CBAllows(cb[c], CircuitBreakerConfig(c))
                            THEN @ \cup {<<c, method>>} ELSE @]

\* a call through c's breaker: the component is invoked only when the breaker allows
Protected(tr, c, method) ==
    IF CBAllows(cb[c], CircuitBreakerConfig(c)) THEN Invoked(tr, c, method) ELSE tr

\* history: a stage failed (its call raised, timed out or met an open breaker);
\* kept for the stages whose failure shows in what they hand on
Failed(tr, stage, failed) == IF failed THEN [tr EXCEPT !.failed = @ \cup {stage}] ELSE tr

Event(type, detail) == [rid |-> req.rid, type |-> type, detail |-> detail]

\* asyncio.create_task(ws_manager.broadcast_progress(...)) in a hook: the event
\* is sent when the calling thread has a running event loop
Hooked == req.via = "bridge"
Emit(evs, type, detail) == IF Hooked /\ req.loop THEN Append(evs, Event(type, detail)) ELSE evs

\* a slip in the recording of a stage: put at the head of the path
PathAddSlip(m, stage) == [m EXCEPT !.execution_path = <<stage>> \o @]

\* execution_metadata.execution_path.append(stage)
PathAdd(m, stage) == [m EXCEPT !.execution_path = Append(@, stage)]

\* FinalResponse
Response(success, content, confidence, error_message, models_used, m) ==
    [kind |-> "response", success |-> success, content |-> content,
     overall_confidence |-> confidence, error_message |-> error_message,
     models_used |-> models_used, execution_metadata |-> m]

\* an exception leaves process_request
Raised(error) ==
    [kind |-> "raised", success |-> FALSE, content |-> << >>, overall_confidence |-> 0,
     error_message |-> <<error>>, models_used |-> {}, execution_metadata |-> NoMeta]

\* a slip in the handling of an unexpected exception: raised again
create_error_response_reraise(error) == Raised(error)

\* create_error_response: the standard error response of an exception
create_error_response(error) == Response(FALSE, << >>, 0, <<error>>, {}, NoMeta)

\* _create_degraded_response
DegradedContent(message) == <<"System operating in ", "degraded", " mode: ", message>>
create_degraded_response(message, m, error_details) ==
    Response(FALSE, DegradedContent(message), 20, <<"Degraded operation: ", error_details>>, {}, m)

\* process_request is over: back to the caller, or to the bridge that awaits the thread
Return == IF Hooked THEN "thread_done" ELSE "done"

\* Stage 1, _create_task_from_input_protected: analyze_intent and
\* determine_complexity through the analysis breaker.  The bridge's hook on
\* determine_complexity schedules analysis_complete with create_task, outside
\* any try: without a running loop the RuntimeError fails the protected call.
StageAnalyze(out) ==
    LET c == "analysis_engine"
        allowed == CBAllows(cb[c], CircuitBreakerConfig(c))
        fn_ok == out = "ok" /\ (Hooked => req.loop)
    IN /\ pc = "analysis"
       /\ cb' = [cb EXCEPT ![c] = CBCall(cb[c], CircuitBreakerConfig(c), fn_ok)]
       /\ trace' = Failed(Protected(trace, c, "determine_complexity"), "analysis", ~(allowed /\ fn_ok))
       /\ events' = IF allowed /\ out = "ok" THEN Emit(events, "analysis_complete", << >>) ELSE events
       /\ IF allowed /\ fn_ok
          THEN /\ meta' = PathAdd(meta, "task_creation")
               /\ pc' = IF req.mode # "fast" THEN "estimate" ELSE "decompose"
               /\ UNCHANGED result
          ELSE /\ result' = Raised(IF allowed /\ out = "aic_error"
                                   THEN "AICouncilError" ELSE "OrchestrationError")
               /\ pc' = Return
               /\ UNCHANGED meta
       /\ UNCHANGED <<conc, cost, history, rows, main, handled, stats, reqNo, req, subtasks, plan, cursor, responses, validated, pending, carry>>
       /\ UNCHANGED histVars

\* Stage 2, _stage_estimate_cost -> estimate_cost_and_time: decomposes the
\* task by calling the decomposer itself; every exception is swallowed
StageEstimateCost(ok) ==
    /\ pc = "estimate"
    /\ trace' = Invoked(trace, "task_decomposer", "decompose")
    /\ pc' = "decompose"
    /\ UNCHANGED <<conc, cost, history, rows, main, handled, stats, reqNo, req, subtasks, plan, cursor, responses, validated, meta, result,
                   events, pending, carry>>
    /\ UNCHANGED <<cb, streak, lastCall>>

\* what the decomposer returns: n subtasks, numbered in emission order
Decomposition(types) ==
    [i \in 1..Len(types) |-> [id |-> i, content |-> "part", task_type |-> types[i]]]

TypeLists(n) == UNION {[1..k -> TaskTypes] : k \in 1..n}

\* _create_fallback_subtask: the whole input as one subtask; its type is the
\* first that classify_task_type returns, REASONING when that call raises,
\* None when it returns nothing
FallbackTypes == TaskTypes \cup {"none"}
create_fallback_subtask(t) == [id |-> 1, content |-> "original", task_type |-> t]

\* Stage 3, _stage_decompose_task: decompose and validate through the
\* decomposer breaker; on any failure the fallback subtask
StageDecompose(out, types, ft) ==
    LET c == "task_decomposer"
        allowed == CBAllows(cb[c], CircuitBreakerConfig(c))
        fn_ok == out = "ok"
    IN /\ pc = "decompose"
       /\ cb' = [cb EXCEPT ![c] = CBCall(cb[c], CircuitBreakerConfig(c), fn_ok)]
       /\ IF allowed /\ fn_ok
          THEN /\ subtasks' = Decomposition(types)
               /\ trace' = Protected(trace, c, "decompose")
          ELSE /\ subtasks' = <<create_fallback_subtask(ft)>>
               /\ trace' = Failed(Invoked(Protected(trace, c, "decompose"), "analysis_engine",
                                          "classify_task_type"), "decomposition", TRUE)
       /\ meta' = PathAdd(meta, "task_decomposition")
       /\ pc' = "plan"
       /\ UNCHANGED <<conc, cost, history, rows, main, handled, stats, reqNo, req, plan, cursor, responses, validated, result, events,
                      pending, carry>>
       /\ UNCHANGED histVars

\* the ways of cutting a list of ids into consecutive non-empty groups
RECURSIVE Compositions(_)
Compositions(ids) ==
    IF ids = << >> THEN {<< >>}
    ELSE UNION {{<<SubSeq(ids, 1, k)>> \o rest : rest \in Compositions(SubSeq(ids, k + 1, Len(ids)))}
                : k \in 1..Len(ids)}

WithEmptyGroup(p) ==
    {SubSeq(p, 1, k) \o << << >> >> \o SubSeq(p, k + 1, Len(p)) : k \in 0..Len(p)}

Ids(sts) == [i \in 1..Len(sts) |-> sts[i].id]

\* what determine_parallelism may return: the subtasks in order, cut into
\* groups, possibly with a group that holds no subtask
RouterPlans(sts) ==
    Compositions(Ids(sts)) \cup UNION {WithEmptyGroup(p) : p \in Compositions(Ids(sts))}

\* a slip in the fallback plan: all subtasks in a single group
create_sequential_plan_single(sts) == ExecutionPlan(<<Ids(sts)>>, Ids(sts))

\* _create_sequential_plan: one group per subtask
create_sequential_plan(sts) == ExecutionPlan([i \in 1..Len(sts) |-> <<sts[i].id>>], Ids(sts))

\* Stage 4, _stage_plan_execution
StagePlan(ok, p) ==
    /\ pc = "plan"
    /\ plan' = IF ok THEN ExecutionPlan(p, Ids(subtasks)) ELSE create_sequential_plan(subtasks)
    /\ meta' = PathAdd([meta EXCEPT !.parallel_executions = Len(plan'.parallel_groups)],
                     "execution_planning")
    /\ trace' = Failed(trace, "planning", ~ok)
    /\ cursor' = NoCursor
    /\ pc' = "execute"
    /\ UNCHANGED <<conc, cost, history, rows, main, handled, stats, reqNo, req, subtasks, responses, validated, result, events, pending,
                   carry>>
    /\ UNCHANGED <<cb, streak, lastCall>>

\* resilience_manager.health_check: degraded while some breaker is OPEN
Health == IF \E c \in Components : cb[c].state = "OPEN" THEN "degraded" ELSE "operational"

\* AgentResponse
AgentResponse(sid, success, model_used, error_message) ==
    [subtask_id |-> sid, success |-> success, model_used |-> model_used,
     error_message |-> error_message]

\* the confidence a model's self-assessment reports, in hundredths
Confidence(m) == IF m = "M1" THEN 90 ELSE 60
Content(r) == <<"answer", ToString(r.subtask_id)>>

ExecOutcomes == {"completed", "failed", "timeout", "error"}

\* a slip in the handling of an exception: the response names no subtask
SubtaskResponseSlip(st, prio, m, out) ==
    IF out = "error" THEN AgentResponse(0, FALSE, "unknown", "exception")
    ELSE IF out = "completed" /\ ModelsFor(st.task_type) # {} THEN AgentResponse(st.id, TRUE, m, "")
    ELSE AgentResponse(st.id, FALSE, "timeout", "Execution timed out")

\* _execute_single_subtask: whether the subtask is skipped unexecuted
SkipsSlip(health, mode, prio) == health = "degraded" /\ mode = "fast"
Skips(health, mode, prio) == health = "degraded" /\ mode = "fast" /\ prio \in {"low", "medium"}

\* _execute_single_subtask: the response of one subtask
SubtaskResponse(st, prio, m, out) ==
    IF Skips(Health, req.mode, prio)
    THEN AgentResponse(st.id, FALSE, "skipped", "Skipped due to system degradation")
    ELSE IF ModelsFor(st.task_type) = {}
    THEN AgentResponse(st.id, FALSE, "none_available", "No models available")
    ELSE CASE out = "completed" -> AgentResponse(st.id, TRUE, m, "")
           [] out = "failed"    -> AgentResponse(st.id, FALSE, m, "agent error")
           [] out = "timeout"   -> AgentResponse(st.id, FALSE, "timeout", "Execution timed out")
           [] out = "error"     -> AgentResponse(st.id, FALSE, "unknown", "exception")

\* whether execution_agent.execute ran to its end (the bridge's hook on it
\* then reports the response)
AgentReturned(r) == r.model_used \in Models

\* progress_data of hooked_execute: subtaskId, status, and errorMessage when
\* the response failed with a message
ProgressData(r) ==
    <<ToString(r.subtask_id), IF r.success THEN "completed" ELSE "failed">>
        \o (IF ~r.success /\ r.error_message # "" THEN <<r.error_message>> ELSE << >>)

Succeeded(rs) == SelectSeq(rs, LAMBDA r : r.success)

\* the routing hook on _execute_parallel_group, on its first call: one
\* assignment per subtask of that group that has a model
RoutingAssignments(group) ==
    SelectSeq(group, LAMBDA sid : ModelsFor(subtasks[sid].task_type) # {})

\* a slip: a failed subtask counted as a failure by the synthesis breaker
BreakersAfterSubtaskSlip(r) ==
    IF r.success THEN cb
    ELSE [cb EXCEPT !["synthesis_layer"] = CBOnFailure(@, CircuitBreakerConfig("synthesis_layer"))]

\* the breakers after _execute_single_subtask has produced response r: it
\* goes through timeout_handler only and calls no breaker
BreakersAfterSubtask(r) == cb

\* one member of the current group is executed (_execute_parallel_group_resilient)
ExecuteSubtask(prio, m, out) ==
    LET group == plan.parallel_groups[cursor.group]
        st == subtasks[group[cursor.member]]
        r == SubtaskResponse(st, prio, m, out)
        first == cursor.group = 1 /\ cursor.member = 1
    IN /\ pc = "execute"
       /\ cursor.group <= Len(plan.parallel_groups)
       /\ cursor.member <= Len(group)
       /\ responses' = Append(responses, r)
       /\ cursor' = [cursor EXCEPT !.member = @ + 1]
       /\ events' = IF AgentReturned(r)
                    THEN Emit(events, "execution_progress", ProgressData(r)) ELSE events
       /\ pending' = IF Hooked /\ req.hasGroupHook /\ first /\ RoutingAssignments(group) # << >>
                     THEN RoutingAssignments(group) ELSE pending
       /\ trace' = [Failed(trace, "execution", ~r.success) EXCEPT
                        !.gate = [health |-> Health, priority |-> prio]]
       /\ cb' = BreakersAfterSubtask(r)
       /\ UNCHANGED <<conc, cost, history, rows, main, handled, stats, reqNo, pc, req, subtasks, plan, validated, meta, result, carry>>
       /\ UNCHANGED histVars

\* the subtasks whose execution has begun: the loop of
\* _execute_parallel_group_resilient runs _execute_single_subtask for a member
\* to its end before it begins the next, so these are the members that have
\* responded
Started == {responses[i].subtask_id : i \in DOMAIN responses}

\* the responses of the group under the cursor
GroupResponses == SubSeq(responses, Len(responses) - Len(plan.parallel_groups[cursor.group]) + 1, Len(responses))

\* the group is over (_execute_subtasks_with_resilience): its success rate is
\* taken, which divides by the size of the group, and FAST mode stops when
\* more than half of the groups so far had a low rate
EndGroup ==
    LET group == plan.parallel_groups[cursor.group]
        low == 2 * Len(Succeeded(GroupResponses)) < Len(group)
        failed == cursor.failed_groups + (IF low THEN 1 ELSE 0)
        stop == 2 * failed > cursor.group /\ req.mode = "fast"
    IN /\ pc = "execute"
       /\ cursor.group <= Len(plan.parallel_groups)
       /\ cursor.member > Len(group)
       /\ IF Len(group) = 0
          THEN /\ result' = create_error_response("division by zero")
               /\ pc' = Return
               /\ trace' = [Failed(trace, "execution", TRUE) EXCEPT !.gate = NoGate]
               /\ UNCHANGED cursor
          ELSE /\ cursor' = [group |-> IF stop THEN Len(plan.parallel_groups) + 1 ELSE cursor.group + 1,
                             member |-> 1, failed_groups |-> failed]
               /\ trace' = [trace EXCEPT !.gate = NoGate]
               /\ UNCHANGED <<pc, result>>
       /\ UNCHANGED <<conc, cost, history, rows, main, handled, stats, reqNo, req, subtasks, plan, responses, validated, meta, events,
                      pending, carry>>
       /\ UNCHANGED <<cb, streak, lastCall>>

\* Stage 5 is over: the path and the models of the successful responses are recorded
EndExecution ==
    /\ pc = "execute"
    /\ cursor.group > Len(plan.parallel_groups)
    /\ meta' = [PathAdd(meta, "subtask_execution") EXCEPT
                   !.models_used = {responses[i].model_used : i \in {j \in 1..Len(responses) : responses[j].success}}]
    /\ cursor' = NoCursor
    /\ pc' = "check"
    /\ UNCHANGED <<conc, cost, history, rows, main, handled, stats, reqNo, req, subtasks, plan, responses, validated, result, events,
                   pending, trace, carry>>
    /\ UNCHANGED <<cb, streak, lastCall>>

\* success_rate < self.partial_failure_threshold, for s successes out of n
BelowThresholdSlip(s, n) == 2 * s <= n
BelowThreshold(s, n) == 2 * s < n

\* what resilience_manager.handle_failure may recommend for a partial failure
Recommendations == {"continue_degraded", "abort"}

\* _stage_check_partial_failure, then the filter for successful responses
\* (process_request, after stage 5)
StageCheckPartialFailure(rec) ==
    LET n == Len(responses)
        s == Len(Succeeded(responses))
        low == n > 0 /\ BelowThreshold(s, n)
        action == IF ~low THEN "continue"
                  ELSE IF rec = "continue_degraded" THEN "degraded" ELSE "fail"
        m == IF action = "degraded" THEN PathAdd(meta, "partial_failure_degraded") ELSE meta
    IN /\ pc = "check"
       /\ trace' = [trace EXCEPT !.filed = low, !.action = action,
                                 !.recommendation = IF low THEN rec ELSE "none"]
       /\ meta' = m
       /\ IF action = "fail"
          THEN /\ result' = create_degraded_response("Too many subtask failures", m,
                                                     "Success rate below 50% threshold")
               /\ pc' = Return
          ELSE IF s = 0
          THEN /\ result' = create_degraded_response("All subtasks failed", m,
                                                     "No successful subtask executions")
               /\ pc' = Return
          ELSE /\ pc' = "arbitrate"
               /\ UNCHANGED result
       /\ UNCHANGED <<conc, cost, history, rows, main, handled, stats, reqNo, req, subtasks, plan, cursor, responses, validated, events,
                      pending, carry>>
       /\ UNCHANGED <<cb, streak, lastCall>>

\* ArbitrationLayer.arbitrate: per subtask the response of highest confidence
Arbitrate(rs) ==
    SelectSeq(rs, LAMBDA r : \A i \in 1..Len(rs) :
                      rs[i].subtask_id = r.subtask_id =>
                          Confidence(rs[i].model_used) <= Confidence(r.model_used))

\* the subtasks on which two of the responses disagree (the responses of two
\* models differ in content and in confidence)
ConflictingSubtasks(rs) ==
    {sid \in {rs[i].subtask_id : i \in DOMAIN rs} :
        \E i, j \in DOMAIN rs : /\ rs[i].subtask_id = sid /\ rs[j].subtask_id = sid
                                 /\ rs[i].model_used # rs[j].model_used}

\* the first of the validated responses to subtask sid
ChosenFor(rs, sid) ==
    LET vs == Arbitrate(rs)
    IN vs[CHOOSE i \in DOMAIN vs : vs[i].subtask_id = sid /\ \A j \in 1..(i - 1) : vs[j].subtask_id # sid]

ResponseId(r) == <<ToString(r.subtask_id), r.model_used>>

RECURSIVE Resolutions(_, _)
Resolutions(rs, sids) ==
    IF sids = {} THEN << >>
    ELSE LET sid == CHOOSE x \in sids : \A y \in sids : x <= y
             r == ChosenFor(rs, sid)
         IN <<[chosen_response_id |-> ResponseId(r), confidence |-> Confidence(r.model_used)]>>
                \o Resolutions(rs, sids \ {sid})

\* ArbitrationResult of ArbitrationLayer.arbitrate: the validated responses
\* and one resolution per subtask whose responses conflicted
ArbitrationResult(rs) ==
    [validated_responses |-> Arbitrate(rs),
     conflicts_resolved |-> Resolutions(rs, ConflictingSubtasks(rs))]

\* a slip in the hook: the responses counted instead of the conflicts
ArbitrationDataSlip(ar, rs) ==
    IF ar.conflicts_resolved # << >>
    THEN [conflictsDetected |-> Len(rs),
          decisions |-> [i \in DOMAIN ar.conflicts_resolved |->
                            [chosenResponseId |-> ar.conflicts_resolved[i].chosen_response_id,
                             confidence |-> ar.conflicts_resolved[i].confidence]],
          conflictingResults |-> [i \in DOMAIN rs |-> ResponseId(rs[i])]]
    ELSE [conflictsDetected |-> 0, decisions |-> << >>, conflictingResults |-> << >>]

\* arbitration_data of hooked_arbitrate_with_protection, for the result ar of
\* arbitrating the responses rs
ArbitrationData(ar, rs) ==
    IF ar.conflicts_resolved # << >>
    THEN [conflictsDetected |-> Len(ar.conflicts_resolved),
          decisions |-> [i \in DOMAIN ar.conflicts_resolved |->
                            [chosenResponseId |-> ar.conflicts_resolved[i].chosen_response_id,
                             confidence |-> ar.conflicts_resolved[i].confidence]],
          conflictingResults |-> [i \in DOMAIN rs |-> ResponseId(rs[i])]]
    ELSE [conflictsDetected |-> 0, decisions |-> << >>, conflictingResults |-> << >>]

\* Stage 6, _stage_arbitrate: a single response is passed on as it is; more
\* go to the arbitration layer through its breaker, and on any failure the
\* first response alone is kept.  The bridge's hook reports a decision when
\* the protected call has returned.
StageArbitrate(ok) ==
    LET c == "arbitration_layer"
        allowed == CBAllows(cb[c], CircuitBreakerConfig(c))
        rs == Succeeded(responses)
        called == Len(rs) > 1
    IN /\ pc = "arbitrate"
       /\ cb' = IF called THEN [cb EXCEPT ![c] = CBCall(cb[c], CircuitBreakerConfig(c), ok)] ELSE cb
       /\ trace' = IF called THEN Failed(Protected(trace, c, "arbitrate"), "arbitration", ~(allowed /\ ok))
                   ELSE trace
       /\ validated' = IF ~called THEN rs
                       ELSE IF allowed /\ ok THEN ArbitrationResult(rs).validated_responses
                       ELSE SubSeq(rs, 1, 1)
       /\ events' = IF called /\ allowed /\ ok
                    THEN Emit(events, "arbitration_decision", ArbitrationData(ArbitrationResult(rs), rs))
                    ELSE events
       /\ meta' = PathAdd(meta, "arbitration")
       /\ pc' = "synthesize"
       /\ UNCHANGED <<conc, cost, history, rows, main, handled, stats, reqNo, req, subtasks, plan, cursor, responses, result, pending, carry>>
       /\ UNCHANGED histVars

RECURSIVE SumConfidence(_)
SumConfidence(rs) ==
    IF rs = << >> THEN 0 ELSE Confidence(Head(rs).model_used) + SumConfidence(Tail(rs))

\* SynthesisLayer.synthesize: the contents merged, the mean confidence
Synthesize(vs) ==
    Response(TRUE, <<"synthesis of">> \o [i \in 1..Len(vs) |-> ToString(vs[i].subtask_id)],
             IF vs = << >> THEN 0 ELSE SumConfidence(vs) \div Len(vs),
             << >>, {vs[i].model_used : i \in 1..Len(vs)}, NoMeta)

\* a slip in the fallback: the default confidence whatever the response reports
SynthesisFallbackSlip(vs) ==
    IF vs = << >>
    THEN Response(FALSE, << >>, 50, <<"No responses available for synthesis">>, {}, NoMeta)
    ELSE Response(TRUE, Content(vs[1]), 50, << >>, {vs[1].model_used}, NoMeta)

\* the fallback of _stage_synthesize when the protected call raised
SynthesisFallback(vs) ==
    IF vs = << >>
    THEN Response(FALSE, << >>, 50, <<"No responses available for synthesis">>, {}, NoMeta)
    ELSE Response(TRUE, Content(vs[1]), Confidence(vs[1].model_used), << >>, {vs[1].model_used}, NoMeta)

\* final_response_data of hooked_synthesize_with_protection, built from the
\* FinalResponse the protected synthesis call returned
FinalResponseData(final) ==
    [stage |-> "complete", content |-> final.content,
     overallConfidence |-> final.overall_confidence, success |-> final.success,
     modelsUsed |-> final.models_used,
     executionMetadata |->
         [executionPath |-> final.execution_metadata.execution_path,
          parallelExecutions |-> final.execution_metadata.parallel_executions]]

\* Stage 7, _stage_synthesize.  The bridge's hook on _synthesize_with_protection
\* reports "started" before the protected call, and "complete" and the final
\* response after it has returned.
StageSynthesize(ok) ==
    LET c == "synthesis_layer"
        allowed == CBAllows(cb[c], CircuitBreakerConfig(c))
        final == IF allowed /\ ok THEN Synthesize(validated) ELSE SynthesisFallback(validated)
        started == Emit(events, "synthesis_progress", [stage |-> "started"])
    IN /\ pc = "synthesize"
       /\ cb' = [cb EXCEPT ![c] = CBCall(cb[c], CircuitBreakerConfig(c), ok)]
       /\ trace' = Failed(Protected(trace, c, "synthesize"), "synthesis", ~(allowed /\ ok))
       /\ result' = final
       /\ events' = IF allowed /\ ok
                    THEN Emit(Emit(started, "synthesis_progress", FinalResponseData(final)),
                              "final_response", FinalResponseData(final))
                    ELSE started
       /\ carry' = [carry EXCEPT !.synthesis_failures =
                       IF ~allowed THEN @ ELSE IF ok THEN 0 ELSE Min(@ + 1, 3)]
       /\ meta' = PathAdd(meta, "synthesis")
       /\ pc' = "metadata"
       /\ UNCHANGED <<conc, cost, history, rows, main, handled, stats, reqNo, req, subtasks, plan, cursor, responses, validated, pending>>
       /\ UNCHANGED histVars

MetadataOutcomes == {"ok", "error", "aic_error", "timeout"}

\* Stage 8, _stage_attach_metadata: synthesis_layer.attach_metadata called
\* directly; what it raises is handled by process_request's except clauses
StageAttachMetadata(out) ==
    /\ pc = "metadata"
    /\ trace' = Failed(Invoked(trace, "synthesis_layer", "attach_metadata"),
                       IF out \in {"aic_error", "timeout"} THEN "metadata_raise" ELSE "metadata",
                       out # "ok")
    /\ result' = CASE out = "ok"        -> [result EXCEPT !.execution_metadata = meta]
                   [] out = "error"     -> create_error_response("exception")
                   [] out = "aic_error" -> Raised("AICouncilError")
                   [] out = "timeout"   -> Raised("ModelTimeoutError")
    /\ pc' = Return
    /\ UNCHANGED <<conc, cost, history, rows, main, handled, stats, reqNo, req, subtasks, plan, cursor, responses, validated, meta, events,
                   pending, carry>>
    /\ UNCHANGED <<cb, streak, lastCall>>

(***************************************************************************)
(* The callers of process_request.                                         *)
(***************************************************************************)
\* requests processed in one run
MaxRequests == 4
\* subtasks a decomposition yields at most
MaxSubtasks == 2
\* the same two bounds of SpecWide
WideRequests == 1
WideSubtasks == 3

Fresh(r) ==
    /\ reqNo' = reqNo + 1
    /\ req' = r
    /\ subtasks' = << >>
    /\ plan' = NoPlan
    /\ cursor' = NoCursor
    /\ responses' = << >>
    /\ validated' = << >>
    /\ meta' = NoMeta
    /\ trace' = NoTrace
    /\ carry' = [carry EXCEPT !.refusing = ~CBAllows(cb["synthesis_layer"],
                                                     CircuitBreakerConfig("synthesis_layer"))]

\* ConcreteOrchestrationLayer.process_request is entered, outside the bridge
LayerStart(mode) ==
    /\ pc \in {"idle", "done"}
    /\ Fresh([mode |-> mode, via |-> "core", rid |-> reqNo + 1, hasGroupHook |-> FALSE,
              loop |-> FALSE, current_request_id |-> 0])
    /\ events' = << >>
    /\ pending' = << >>
    /\ result' = NoResult
    /\ pc' = "analysis"
    /\ UNCHANGED <<conc, cost, history, rows, handled, stats>>
    /\ UNCHANGED <<cb, streak, lastCall>>

\* a caller invokes ConcreteOrchestrationLayer.process_request directly
StartRequest(mode) == LayerStart(mode) /\ UNCHANGED main

\* a slip in the error response: the message of the exception alone
BridgeErrorSlip(error) == Response(FALSE, << >>, 0, error, {}, NoMeta)

\* the FinalResponse the bridge returns when anything raised
BridgeError(error) == Response(FALSE, << >>, 0, <<"Processing failed: ">> \o error, {}, NoMeta)

\* CouncilOrchestrationBridge.process_request up to the thread it starts: a
\* new orchestration layer, the hooks, processing_started.  Installing the
\* routing hook reads the layer's _execute_parallel_group; on a layer without
\* that attribute the AttributeError ends the request in the except clause.
\* The layer comes from AICouncilFactory.create_orchestration_layer, which is
\* not among the sources: hasGroupHook says whether the layer it returns has
\* the attribute (ConcreteOrchestrationLayer has not) and runs its groups
\* through it.  loop: whether the hooks, run by the thread that
\* asyncio.to_thread starts, find a running event loop (a worker thread has
\* none; the hooks find one when process_request runs on the loop's thread).
BridgeStart(mode, hasGroupHook, loop) ==
    LET r == [mode |-> mode, via |-> "bridge", rid |-> reqNo + 1,
              hasGroupHook |-> hasGroupHook, loop |-> loop,
              current_request_id |-> IF hasGroupHook THEN reqNo + 1 ELSE 0]
        ev(type) == [rid |-> r.rid, type |-> type, detail |-> << >>]
    IN /\ pc \in {"idle", "done"}
       /\ Fresh(r)
       /\ pending' = << >>
       /\ IF hasGroupHook
          THEN /\ events' = <<ev("processing_started")>>
               /\ result' = NoResult
               /\ pc' = "analysis"
          ELSE /\ events' = <<ev("error")>>
               /\ result' = BridgeError(<<"AttributeError">>)
               /\ pc' = "done"
       /\ UNCHANGED <<conc, cost, history, rows, main, handled, stats>>
       /\ UNCHANGED <<cb, streak, lastCall>>

\* the thread is over: routing_complete when assignments were captured, the
\* error event and the error response when the thread raised; finally
\* current_request_id and the pending assignments are reset
BridgeFinish ==
    /\ pc = "thread_done"
    /\ IF result.kind = "raised"
       THEN /\ events' = Append(events, Event("error", << >>))
            /\ result' = BridgeError(result.error_message)
       ELSE /\ events' = IF pending # << >>
                         THEN Append(events, Event("routing_complete", [i \in 1..Len(pending) |-> ToString(pending[i])]))
                         ELSE events
            /\ UNCHANGED result
    /\ pending' = << >>
    /\ req' = [req EXCEPT !.current_request_id = 0]
    /\ pc' = "done"
    /\ UNCHANGED <<conc, cost, history, rows, main, handled, stats, reqNo, subtasks, plan, cursor, responses, validated, meta, trace, carry>>
    /\ UNCHANGED <<cb, streak, lastCall>>

Init == InitBreakers /\ InitHist /\ InitIdle /\ conc = NoConc

\* the stages of process_request, on decompositions of at most maxSubtasks
\* subtasks
Stages(maxSubtasks) ==
    \/ \E out \in {"ok", "error", "aic_error"} : StageAnalyze(out)
    \/ \E ok \in BOOLEAN : StageEstimateCost(ok)
    \/ \E out \in {"ok", "error"}, types \in TypeLists(maxSubtasks), ft \in FallbackTypes :
           StageDecompose(out, types, ft)
    \/ \E ok \in BOOLEAN, p \in RouterPlans(subtasks) : StagePlan(ok, p)
    \/ \E prio \in Priorities, m \in Models, out \in ExecOutcomes : ExecuteSubtask(prio, m, out)
    \/ EndGroup
    \/ EndExecution
    \/ \E rec \in Recommendations : StageCheckPartialFailure(rec)
    \/ \E ok \in BOOLEAN : StageArbitrate(ok)
    \/ \E ok \in BOOLEAN : StageSynthesize(ok)
    \/ \E out \in MetadataOutcomes : StageAttachMetadata(out)

\* the steps of a run of at most maxRequests requests, one after another,
\* whose decompositions yield at most maxSubtasks subtasks
Run(maxRequests, maxSubtasks) ==
    \/ \E mode \in ExecutionModes : reqNo < maxRequests /\ StartRequest(mode)
    \/ \E mode \in ExecutionModes, h \in BOOLEAN, l \in BOOLEAN :
           reqNo < maxRequests /\ BridgeStart(mode, h, l)
    \/ Stages(maxSubtasks)
    \/ BridgeFinish

\* requests one after another, breakers carried over, the clock advancing
\* between them
Next == Run(MaxRequests, MaxSubtasks) \/ Tick
Spec == Init /\ [][Next]_vars

\* a single request with a larger decomposition; no breaker opens within it
NextWide == Run(WideRequests, WideSubtasks)
SpecWide == Init /\ [][NextWide]_vars

(***************************************************************************)
(* SpecMain: AICouncil.process_request, which submits the orchestration    *)
(* layer's process_request to its thread pool and waits for the future     *)
(* until default_timeout_seconds have passed.                              *)
(***************************************************************************)
\* subtasks a decomposition yields at most under SpecMain
MainSubtasks == 2

layerVars == <<conc, cost, history, rows, handled, stats, reqNo, pc, req, subtasks, plan, cursor, responses, validated, meta, result,
               events, pending, trace, carry>>

\* _execute_with_timeout: self.executor.submit(process_request, ...)
MainSubmit(mode) ==
    /\ main.state = "idle"
    /\ main' = [state |-> "waiting", future |-> "pending", mode |-> mode, response |-> NoResult]
    /\ UNCHANGED layerVars
    /\ UNCHANGED <<cb, streak, lastCall>>

\* a worker of the pool takes the future and enters process_request
WorkerStart ==
    /\ main.future = "pending"
    /\ main' = [main EXCEPT !.future = "running"]
    /\ LayerStart(main.mode)

\* future.result(timeout=...) raises TimeoutError while process_request has
\* not ended: future.cancel(), which cancels a future no worker has taken and
\* leaves a running one alone, then the error response of the timeout
Deadline ==
    /\ main.state = "waiting"
    /\ main.future = "pending" \/ (main.future = "running" /\ pc # "done")
    /\ main' = [main EXCEPT !.state = "timed_out",
                            !.future = IF @ = "pending" THEN "cancelled" ELSE @,
                            !.response = create_error_response("Request timed out")]
    /\ UNCHANGED layerVars
    /\ UNCHANGED <<cb, streak, lastCall>>

\* a slip: the exception of process_request reaches the caller
WorkerEndSlip ==
    /\ main.future = "running" /\ pc = "done"
    /\ main' = [main EXCEPT !.future = "done",
                            !.state = IF @ = "waiting" THEN "returned" ELSE @,
                            !.response = IF main.state # "waiting" THEN @ ELSE result]
    /\ UNCHANGED layerVars
    /\ UNCHANGED <<cb, streak, lastCall>>

\* process_request has ended and the future is done: a caller still waiting
\* gets its response, or the error response of the exception it raised;
\* after the timeout nobody reads the future
WorkerEnd ==
    /\ main.future = "running" /\ pc = "done"
    /\ main' = [main EXCEPT !.future = "done",
                            !.state = IF @ = "waiting" THEN "returned" ELSE @,
                            !.response = IF main.state # "waiting" THEN @
                                         ELSE IF result.kind = "response" THEN result
                                         ELSE create_error_response(result.error_message[1])]
    /\ UNCHANGED layerVars
    /\ UNCHANGED <<cb, streak, lastCall>>

NextMain ==
    \/ \E mode \in ExecutionModes : MainSubmit(mode)
    \/ WorkerStart
    \/ Deadline
    \/ WorkerEnd
    \/ Stages(MainSubtasks)

SpecMain == Init /\ [][NextMain]_vars

(***************************************************************************)
(* SpecFailure: ConcreteOrchestrationLayer.handle_failure, called by a     *)
(* client of the layer on execution failures of every type.                *)
(***************************************************************************)
\* calls of handle_failure in one run
MaxFailures == 2

\* failure_type: the four types handle_failure knows, and any other
FailureTypes == {"model_unavailable", "timeout", "rate_limit", "quality_failure", "unknown"}

\* ExecutionFailure
ExecutionFailures ==
    [failure_type : FailureTypes, subtask_id : 1..MaxSubtasks, model_id : Models]

\* FallbackStrategy(strategy_type, retry_count); NoStrategy: handle_failure
\* returned None
FallbackStrategy(strategy_type, retry_count) ==
    [strategy_type |-> strategy_type, retry_count |-> retry_count]
NoStrategy == FallbackStrategy("None", 0)

\* _get_subtask_by_id: "simplified implementation", no subtask is ever found
NoSubtask == [id |-> 0, content |-> "none", task_type |-> "none"]
get_subtask_by_id(sid) == NoSubtask

\* handle_failure: the strategy returned.  For model_unavailable the
\* alternative model is returned inside `if subtask:`; with no subtask, or
\* when select_fallback raises, the if/elif chain is left and the method ends
\* without a return statement
handle_failure(failure) ==
    CASE failure.failure_type = "model_unavailable" ->
             IF get_subtask_by_id(failure.subtask_id) # NoSubtask
             THEN FallbackStrategy("alternative_model", 1)
             ELSE NoStrategy
      [] failure.failure_type = "timeout" -> FallbackStrategy("reduce_complexity", 2)
      [] failure.failure_type = "rate_limit" -> FallbackStrategy("wait_and_retry", 3)
      [] failure.failure_type = "quality_failure" -> FallbackStrategy("upgrade_model", 1)
      [] OTHER -> FallbackStrategy("generic_retry", 1)

\* a client calls handle_failure
HandleFailure(failure) ==
    /\ Len(handled) < MaxFailures
    /\ handled' = Append(handled, [failure |-> failure, strategy |-> handle_failure(failure)])
    /\ UNCHANGED <<conc, cost, history, rows, main, stats, reqNo, pc, req, subtasks, plan, cursor, responses, validated,
                   meta, result, events, pending, trace, carry>>
    /\ UNCHANGED <<cb, streak, lastCall>>

NextFailure == \E failure \in ExecutionFailures : HandleFailure(failure)
SpecFailure == Init /\ [][NextFailure]_vars

(***************************************************************************)
(* SpecStats: the requests of one user of the backend (POST /process and   *)
(* its background processing) and GET /user/stats with its Redis cache.    *)
(***************************************************************************)
\* requests the user submits
MaxUserRequests == 3
\* seconds a cached statistics entry lives (setex ..., 300, ...)
StatsTTL == 300
\* seconds the clock advances per StatsTick
StatsTick == 100

otherVars == <<conc, cost, history, rows, main, handled, reqNo, pc, req, subtasks, plan, cursor, responses, validated,
               meta, result, events, pending, trace, carry>>

\* the statistics get_user_stats computes from the database
ComputedStats ==
    [present |-> TRUE, total_requests |-> stats.requests, responses |-> stats.responses]

\* POST /process: a Request record with status "pending" is committed
SubmitUserRequest ==
    /\ stats.requests < MaxUserRequests
    /\ stats' = [stats EXCEPT !.requests = @ + 1]
    /\ UNCHANGED otherVars
    /\ UNCHANGED <<cb, streak, lastCall>>

\* _process_request_background after the bridge has returned: the request
\* gets status "completed" or "failed" and a Response record is added; when
\* that raises (stored = FALSE) only the status "failed" is written.  The
\* cached statistics are not touched.
CompleteUserRequest(stored) ==
    /\ stats.completed < stats.requests
    /\ stats' = [stats EXCEPT !.completed = @ + 1,
                              !.responses = IF stored THEN @ + 1 ELSE @]
    /\ UNCHANGED otherVars
    /\ UNCHANGED <<cb, streak, lastCall>>

\* GET /user/stats: the cached entry when there is one, otherwise the
\* statistics computed from the database, cached for StatsTTL seconds
GetUserStats ==
    LET served == IF stats.cache.present THEN stats.cache ELSE ComputedStats
    IN /\ stats' = [stats EXCEPT !.cache = served,
                                 !.age = IF stats.cache.present THEN @ ELSE 0,
                                 !.last = [present |-> TRUE, served |-> served,
                                           responses |-> stats.responses]]
       /\ UNCHANGED otherVars
       /\ UNCHANGED <<cb, streak, lastCall>>

\* time passes; Redis drops the entry when its time to live is over
StatsClock ==
    /\ stats.cache.present
    /\ stats' = IF stats.age + StatsTick >= StatsTTL
                THEN [stats EXCEPT !.cache = NoEntry, !.age = 0]
                ELSE [stats EXCEPT !.age = @ + StatsTick]
    /\ UNCHANGED otherVars
    /\ UNCHANGED <<cb, streak, lastCall>>

NextStats ==
    \/ SubmitUserRequest
    \/ \E stored \in BOOLEAN : CompleteUserRequest(stored)
    \/ GetUserStats
    \/ StatsClock

SpecStats == Init /\ [][NextStats]_vars

(***************************************************************************)
(* SpecConc: requests handled concurrently by the one bridge object that   *)
(* get_council_bridge hands out.  Each is a coroutine of the event loop,   *)
(* suspended at its awaits; its orchestration runs in a worker thread.     *)
(* The pipeline itself is abstracted to what it does to the bridge: the    *)
(* routing hook stores assignments, the other hooks broadcast.             *)
(***************************************************************************)
\* requests handled concurrently
ConcRequests == 2
ConcIds == 1..ConcRequests

pipeVars == <<cost, history, rows, main, handled, stats, reqNo, pc, req, subtasks, plan, cursor, responses, validated, meta, result, events,
              pending, trace, carry>>

\* ai_council, current_request_id: the bridge's fields (0: None), a layer
\* being named by the request it was created for; pending: the request whose
\* assignments _pending_routing_assignments holds (0: the empty list);
\* at: where each coroutine stands; layer: the layer each thread runs;
\* routed: the layers whose routing hook has captured; emitted: the requests
\* whose processing has broadcast through a hook; log: the broadcasts (rid:
\* the id they were sent under, of: the request whose processing produced
\* them); lost: the requests whose assignments another request discarded
InitConc ==
    /\ InitBreakers /\ InitHist /\ InitIdle
    /\ conc = [ai_council |-> 0, current_request_id |-> 0, pending |-> 0,
               at |-> [r \in ConcIds |-> "new"], layer |-> [r \in ConcIds |-> 0],
               routed |-> {}, emitted |-> {}, log |-> << >>, lost |-> {}]

Broadcast(log, rid, of, type) == Append(log, [rid |-> rid, of |-> of, type |-> type])

\* the assignments held are discarded by request r: lost when they are
\* another request's and that request has not sent them yet
Discard(r) ==
    IF conc.pending \notin {0, r} /\ conc.at[conc.pending] # "done"
    THEN conc.lost \cup {conc.pending} ELSE conc.lost

\* process_request up to its first await: the fields are set, the layer is
\* created and hooked, processing_started is broadcast
ConcEnter(r) ==
    /\ conc.at[r] = "new"
    /\ conc' = [conc EXCEPT !.current_request_id = r, !.pending = 0, !.lost = Discard(r),
                            !.ai_council = r,
                            !.log = Broadcast(@, r, r, "processing_started"),
                            !.at[r] = "started"]
    /\ UNCHANGED <<cb, streak, lastCall>>
    /\ UNCHANGED pipeVars

\* the same on a layer without _execute_parallel_group: the AttributeError
\* of the routing hook leads to the except clause and its error broadcast
ConcHookError(r) ==
    /\ conc.at[r] = "new"
    /\ conc' = [conc EXCEPT !.current_request_id = r, !.pending = 0, !.lost = Discard(r),
                            !.ai_council = r,
                            !.log = Broadcast(@, r, r, "error"),
                            !.at[r] = "failing"]
    /\ UNCHANGED <<cb, streak, lastCall>>
    /\ UNCHANGED pipeVars

\* asyncio.to_thread(self.ai_council.process_request, user_input, mode): the
\* thread runs the layer the field names now, on this request's input
ConcLaunch(r) ==
    /\ conc.at[r] = "started"
    /\ conc' = [conc EXCEPT !.layer[r] = conc.ai_council, !.at[r] = "running"]
    /\ UNCHANGED <<cb, streak, lastCall>>
    /\ UNCHANGED pipeVars

\* the thread reaches the first group: the routing hook of its layer, on its
\* first call, stores this request's assignments in the bridge
ConcThreadRoute(r) ==
    /\ conc.at[r] = "running"
    /\ conc.layer[r] \notin conc.routed
    /\ conc' = [conc EXCEPT !.routed = @ \cup {conc.layer[r]}, !.pending = r,
                            !.lost = Discard(r)]
    /\ UNCHANGED <<cb, streak, lastCall>>
    /\ UNCHANGED pipeVars

\* a hook of the thread's layer broadcasts, under the id its closure holds
ConcThreadEmit(r) ==
    /\ conc.at[r] = "running"
    /\ r \notin conc.emitted
    /\ conc' = [conc EXCEPT !.emitted = @ \cup {r},
                            !.log = Broadcast(@, conc.layer[r], r, "execution_progress")]
    /\ UNCHANGED <<cb, streak, lastCall>>
    /\ UNCHANGED pipeVars

\* the thread is over
ConcThreadEnd(r) ==
    /\ conc.at[r] = "running"
    /\ conc' = [conc EXCEPT !.at[r] = "thread_done"]
    /\ UNCHANGED <<cb, streak, lastCall>>
    /\ UNCHANGED pipeVars

\* after the await of the thread: routing_complete with the assignments the
\* bridge holds, sent under this request's id; finally the fields are reset
ConcFinish(r) ==
    /\ conc.at[r] \in {"thread_done", "failing"}
    /\ conc' = [conc EXCEPT !.log = IF conc.at[r] = "thread_done" /\ conc.pending # 0
                                    THEN Broadcast(@, r, conc.pending, "routing_complete")
                                    ELSE @,
                            !.current_request_id = 0, !.pending = 0, !.lost = Discard(r),
                            !.at[r] = "done"]
    /\ UNCHANGED <<cb, streak, lastCall>>
    /\ UNCHANGED pipeVars

NextConc ==
    \/ \E r \in ConcIds : ConcEnter(r)
    \/ \E r \in ConcIds : ConcHookError(r)
    \/ \E r \in ConcIds : ConcLaunch(r)
    \/ \E r \in ConcIds : ConcThreadRoute(r)
    \/ \E r \in ConcIds : ConcThreadEmit(r)
    \/ \E r \in ConcIds : ConcThreadEnd(r)
    \/ \E r \in ConcIds : ConcFinish(r)

SpecConc == InitConc /\ [][NextConc]_vars

(***************************************************************************)
(* SpecArb: the arbitration stage of a bridge request on the responses it  *)
(* is handed, several responses to one subtask included (process_request   *)
(* itself executes every subtask once; the bridge's tests hand the hooked  *)
(* _arbitrate_with_protection redundant responses).                        *)
(***************************************************************************)
\* responses handed to the stage at most, and the subtasks they answer
ArbResponses == 3
ArbSubtasks == 2

ArbInputs ==
    UNION {[1..n -> {AgentResponse(sid, TRUE, m, "") : sid \in 1..ArbSubtasks, m \in Models}]
           : n \in 2..ArbResponses}

InitArb ==
    /\ InitBreakers /\ InitHist /\ conc = NoConc /\ main = NoMain /\ handled = << >>
    /\ stats = NoStats /\ cost = NoCost /\ history = NoHistory /\ rows = << >>
    /\ reqNo = 1
    /\ pc = "arbitrate"
    /\ req = [mode |-> "balanced", via |-> "bridge", rid |-> 1, hasGroupHook |-> TRUE, loop |-> TRUE,
              current_request_id |-> 1]
    /\ subtasks = Decomposition([i \in 1..ArbSubtasks |-> "reasoning"])
    /\ plan = NoPlan
    /\ cursor = NoCursor
    /\ responses \in ArbInputs
    /\ validated = << >>
    /\ meta = NoMeta
    /\ result = NoResult
    /\ events = << >>
    /\ pending = << >>
    /\ trace = NoTrace
    /\ carry = [synthesis_failures |-> 0, refusing |-> FALSE]

NextArb == \E ok \in BOOLEAN : StageArbitrate(ok)
SpecArb == InitArb /\ [][NextArb]_vars

(***************************************************************************)
(* SpecCost: the pre-flight cost estimator of the backend with its Redis   *)
(* cache.  Prices are integers in units of 10^-8 dollars per token and     *)
(* estimates integers in micro-dollars (round(..., 6)).                    *)
(***************************************************************************)
\* request lengths quoted: the even lengths up to MaxLength characters
MaxLength == 14
Lengths == {n \in 0..MaxLength : n % 2 = 0}

\* average price per token of a mode's preferred models, from MODEL_REGISTRY
\* and EXECUTION_MODE_CONFIGS: a dearer mode's models are taken to be no cheaper
AveragePrices == {5, FallbackPrice}
PriceTables ==
    {t \in [ExecutionModes -> AveragePrices] :
        t["fast"] <= t["balanced"] /\ t["balanced"] <= t["best_quality"]}

\* the multipliers, in tenths
SUBTASK_MULTIPLIERSSlip == [fast |-> 50, balanced |-> 30, best_quality |-> 15]
SUBTASK_MULTIPLIERS == [fast |-> 15, balanced |-> 30, best_quality |-> 50]
OUTPUT_MULTIPLIERS == [fast |-> 15, balanced |-> 20, best_quality |-> 30]

\* int(x * m) for a count x >= 0 and a multiplier of m tenths
IntTimes(x, m) == (x * m) \div 10

\* int(text_length * 0.25)
estimate_token_countSlip(text_length) == (text_length % 8) \div 4
estimate_token_count(text_length) == text_length \div 4

\* round(x, 6) of an amount of x * 10^-8 dollars, in micro-dollars (half to even)
Round6(x) ==
    LET q == x \div 100
        r == x % 100
    IN IF r > 50 \/ (r = 50 /\ q % 2 = 1) THEN q + 1 ELSE q

get_average_model_cost(prices, execution_mode) == prices[execution_mode]

estimate_cost_for_mode(prices, request_length, execution_mode) ==
    LET input_tokens == estimate_token_count(request_length)
        output_tokens == IntTimes(input_tokens, OUTPUT_MULTIPLIERS[execution_mode])
        total_input_tokens == IntTimes(input_tokens, SUBTASK_MULTIPLIERS[execution_mode])
        total_output_tokens == IntTimes(output_tokens, SUBTASK_MULTIPLIERS[execution_mode])
    IN Round6((total_input_tokens + total_output_tokens)
              * get_average_model_cost(prices, execution_mode))

estimate_all_modes(prices, request_length) ==
    [mode \in ExecutionModes |-> estimate_cost_for_mode(prices, request_length, mode)]

\* the number in the key "cost:estimate:length:<rounded_length>"
get_cache_key(request_length) == (request_length \div 10) * 10
CacheKeys == {get_cache_key(n) : n \in Lengths}

\* json.dumps of the estimates (the three numbers in the order of the dict)
\* and json.loads of such a text
ModeOrder == <<"fast", "balanced", "best_quality">>
json_dumps(estimates) == [i \in 1..3 |-> estimates[ModeOrder[i]]]
json_loads(text) ==
    [mode \in ExecutionModes |-> text[CHOOSE i \in 1..3 : ModeOrder[i] = mode]]

costVars == <<conc, history, rows, main, handled, stats, reqNo, pc, req, subtasks, plan, cursor, responses,
              validated, meta, result, events, pending, trace, carry>>

\* estimate_all_modes(request_length)
EstimateAllModes(request_length) ==
    LET quote == [n |-> request_length, estimates |-> estimate_all_modes(cost.prices, request_length)]
    IN /\ cost' = [cost EXCEPT !.direct = IF Len(@) = 0 THEN <<quote>> ELSE <<@[Len(@)], quote>>]
       /\ UNCHANGED costVars
       /\ UNCHANGED <<cb, streak, lastCall>>

\* estimate_all_modes_cached(request_length) of an estimator built with a
\* Redis client (redis) or without; readOk, writeOk: whether the get and the
\* setex return rather than raise
EstimateAllModesCached(request_length, redis, readOk, writeOk) ==
    LET cache_key == get_cache_key(request_length)
        cached_value == IF redis /\ readOk THEN cost.cache[cache_key] ELSE << >>
        hit == cached_value # << >>
        estimates == IF hit THEN json_loads(cached_value)
                     ELSE estimate_all_modes(cost.prices, request_length)
    IN /\ cost' = [cost EXCEPT
                      !.cache = IF redis /\ ~hit /\ writeOk
                                THEN [@ EXCEPT ![cache_key] = json_dumps(estimates)] ELSE @,
                      !.cached = [present |-> TRUE, n |-> request_length, hit |-> hit,
                                  estimates |-> estimates]]
       /\ UNCHANGED costVars
       /\ UNCHANGED <<cb, streak, lastCall>>

\* Redis drops an entry when its time to live (cache_ttl) is over
CacheExpire(cache_key) ==
    /\ cost.cache[cache_key] # << >>
    /\ cost' = [cost EXCEPT !.cache[cache_key] = << >>]
    /\ UNCHANGED costVars
    /\ UNCHANGED <<cb, streak, lastCall>>

InitCost ==
    /\ InitBreakers /\ InitHist /\ conc = NoConc /\ InitPipeline
    /\ history = NoHistory /\ rows = << >>
    /\ cost \in {[NoCost EXCEPT !.prices = t, !.cache = [k \in CacheKeys |-> << >>]] : t \in PriceTables}

NextCost ==
    \/ \E n \in Lengths : EstimateAllModes(n)
    \/ \E n \in Lengths, redis, readOk, writeOk \in BOOLEAN : EstimateAllModesCached(n, redis, readOk, writeOk)
    \/ \E k \in CacheKeys : CacheExpire(k)

SpecCost == InitCost /\ [][NextCost]_vars

(***************************************************************************)
(* SpecHistory: GET /history over the requests of one user.  A request is  *)
(* named by its position in history.requests.                              *)
(***************************************************************************)
\* requests of the user
MaxHistory == 3
\* distinct values of created_at among them
MaxStamp == 2
\* pages asked for: 0..MaxPage
MaxPage == 3
\* the largest limit the endpoint accepts
MaxLimit == 100
Limits == {0, 1, 2, MaxLimit, MaxLimit + 1}
\* the mode filter: none, a valid mode, a mode that does not exist
ModeFilters == {"any", "fast", "turbo"}

\* the Request records of a user: created_at never decreases from one
\* record to the next one created
UserRequests ==
    UNION {{rs \in [1..n -> [created_at : 1..MaxStamp, execution_mode : {"fast", "balanced"}]] :
               \A i \in 1..(n - 1) : rs[i].created_at <= rs[i + 1].created_at} : n \in 0..MaxHistory}

\* the records the query selects
Matching(requests, mode) ==
    {i \in DOMAIN requests : mode = "any" \/ requests[i].execution_mode = mode}

\* the orders in which the database may return the records ids under
\* ORDER BY created_at DESC: records with equal created_at come in any order
Orderings(requests, ids) ==
    {o \in [1..Cardinality(ids) -> ids] :
        /\ \A i, j \in DOMAIN o : i < j => o[i] # o[j] /\ requests[o[i]].created_at >= requests[o[j]].created_at}

\* get_request_history(page, limit, mode=mode) when the database returns the
\* selected records in the order `order`
get_request_history(requests, page, limit, mode, order) ==
    IF page < 1 \/ limit < 1 \/ limit > MaxLimit \/ mode \notin ({"any"} \cup ExecutionModes)
    THEN [NoResponse EXCEPT !.code = 400]
    ELSE LET total == Cardinality(Matching(requests, mode))
             pages == IF total > 0 THEN (total + limit - 1) \div limit ELSE 0
             offset == (page - 1) * limit
         IN [code |-> 200, items |-> SubSeq(order, offset + 1, Min(offset + limit, total)),
             total |-> total, page |-> page, pages |-> pages]

historyVars == <<conc, cost, rows, main, handled, stats, reqNo, pc, req, subtasks, plan, cursor, responses,
                 validated, meta, result, events, pending, trace, carry>>

\* a call of GET /history; walk keeps the pages returned by calls for page
\* 1, 2, ... made one after another with the same limit and filter
GetRequestHistory(page, limit, mode, order) ==
    LET response == get_request_history(history.requests, page, limit, mode, order)
        query == [page |-> page, limit |-> limit, mode |-> mode]
        continues == /\ page = Len(history.walk) + 1
                     /\ page > 1 => (history.query.limit = limit /\ history.query.mode = mode)
    IN /\ history' = [history EXCEPT
                         !.query = query,
                         !.response = response,
                         !.walk = IF response.code = 200 /\ continues
                                  THEN Append(IF page = 1 THEN << >> ELSE @, response.items)
                                  ELSE IF response.code = 200 /\ page = 1 THEN <<response.items>>
                                  ELSE << >>]
       /\ UNCHANGED historyVars
       /\ UNCHANGED <<cb, streak, lastCall>>

InitHistory ==
    /\ InitBreakers /\ InitHist /\ conc = NoConc /\ InitPipeline
    /\ cost = NoCost /\ rows = << >>
    /\ history \in {[NoHistory EXCEPT !.requests = rs] : rs \in UserRequests}

NextHistory ==
    \E page \in 0..MaxPage, limit \in Limits, mode \in ModeFilters :
        \E order \in Orderings(history.requests, Matching(history.requests, mode)) :
            GetRequestHistory(page, limit, mode, order)

SpecHistory == InitHistory /\ [][NextHistory]_vars

(***************************************************************************)
(* SpecRequests: the Request records of POST /process and the background   *)
(* task each of them starts.                                               *)
(***************************************************************************)
\* requests submitted
MaxRows == 3

\* how bridge.process_request ends: a FinalResponse with success true or
\* false, or an exception
BridgeOutcomes == {"success", "failure", "raised"}

\* Request(status="pending", ...) with its background task started
NewRow == [status |-> "pending", completed_at |-> FALSE, task |-> "running", bridge |-> "none"]

rowVars == <<conc, cost, history, main, handled, stats, reqNo, pc, req, subtasks, plan, cursor, responses,
             validated, meta, result, events, pending, trace, carry>>

\* POST /process: the record is committed and the task created
ProcessEndpoint ==
    /\ Len(rows) < MaxRows
    /\ rows' = Append(rows, NewRow)
    /\ UNCHANGED rowVars
    /\ UNCHANGED <<cb, streak, lastCall>>

\* _process_request_background for record i, to its end.  outcome: how the
\* bridge ended; commitOk: whether the commit of the status and the Response
\* record returns rather than raises; updateOk: whether the select and commit
\* of the exception handler do
ProcessRequestBackground(i, outcome, commitOk, updateOk) ==
    LET stored == outcome # "raised" /\ commitOk
        row == IF stored
               THEN [rows[i] EXCEPT !.status = IF outcome = "success" THEN "completed" ELSE "failed",
                                    !.completed_at = TRUE]
               ELSE IF updateOk
               THEN [rows[i] EXCEPT !.status = "failed", !.completed_at = TRUE]
               ELSE rows[i]
    IN /\ rows[i].task = "running"
       /\ rows' = [rows EXCEPT ![i] = [row EXCEPT !.task = "ended", !.bridge = outcome]]
       /\ UNCHANGED rowVars
       /\ UNCHANGED <<cb, streak, lastCall>>

NextRequests ==
    \/ ProcessEndpoint
    \/ \E i \in DOMAIN rows, outcome \in BridgeOutcomes, commitOk, updateOk \in BOOLEAN :
           ProcessRequestBackground(i, outcome, commitOk, updateOk)

SpecRequests == Init /\ [][NextRequests]_vars

Range(q) == {q[i] : i \in DOMAIN q}

\* ConcreteOrchestrationLayer.process_request has ended, by a return or by an
\* exception (under the bridge: the thread that ran it is over)
LayerReturned == (req.via = "core" /\ pc = "done") \/ pc = "thread_done"

InvokedOn(c) == {iv \in trace.invoked : iv[1] = c}

EventsOf(rid, type) == {i \in DOMAIN events : events[i].rid = rid /\ events[i].type = type}

\* C2: when the bridge has handled a request, however it ended, exactly one
\* final_response event was broadcast for its id and it is the last event.
C2_ExactlyOneFinalLast ==
    (req.via = "bridge" /\ pc = "done") =>
        /\ Cardinality(EventsOf(req.rid, "final_response")) = 1
        /\ events[Len(events)].type = "final_response"

\* the place of an event in the documented order (0: not in the order)
Rank(e) ==
    CASE e.type = "processing_started" -> 1
      [] e.type = "analysis_complete" -> 2
      [] e.type = "routing_complete" -> 3
      [] e.type = "execution_progress" -> 4
      [] e.type = "arbitration_decision" -> 5
      [] e.type = "synthesis_progress" /\ e.detail.stage = "started" -> 6
      [] e.type = "synthesis_progress" /\ e.detail.stage = "complete" -> 7
      [] e.type = "final_response" -> 8
      [] OTHER -> 0

C5_NoCallWhileOpen == trace.bypassed = {}

NoneSucceeded == responses # << >> /\ Succeeded(responses) = << >>

\* C10: when no subtask of the request produced a successful response,
\* process_request returns a FinalResponse with success=false whose content
\* contains "degraded", and neither the arbitration layer nor the synthesis
\* layer was invoked.
C10_AllFailedDegraded ==
    (LayerReturned /\ NoneSucceeded) =>
        /\ result.kind = "response" /\ ~result.success
        /\ "degraded" \in Range(result.content)
        /\ InvokedOn("arbitration_layer") = {} /\ InvokedOn("synthesis_layer") = {}

Successes == Len(Succeeded(responses))
CheckDone == trace.action # "none"
Marked(m) == "partial_failure_degraded" \in Range(m.execution_path)
Proceeded == pc = "arbitrate" \/ "arbitration" \in Range(meta.execution_path)
DegradedReturn ==
    /\ pc \in {"done", "thread_done"}
    /\ result.kind = "response" /\ ~result.success /\ result.overall_confidence = 20
    /\ ~Proceeded
    /\ InvokedOn("arbitration_layer") = {} /\ InvokedOn("synthesis_layer") = {}

\* C9 as stated: after the execution stage, with at least one response, a
\* partial failure is filed iff successes/total < 0.5; when filed,
\* continue_degraded makes the request proceed to arbitration and synthesis
\* with partial_failure_degraded on the path, and any other recommendation
\* makes it return a FinalResponse with success=false and confidence 0.2
\* without arbitration or synthesis.
C9_AsClaimed ==
    CheckDone =>
        /\ trace.filed <=> 2 * Successes < Len(responses)
        /\ ~trace.filed => Proceeded
        /\ (trace.filed /\ trace.recommendation = "continue_degraded") =>
               Proceeded /\ Marked(meta)
        /\ (trace.filed /\ trace.recommendation # "continue_degraded") => DegradedReturn

\* C9 as amended: the same, except that under continue_degraded the request
\* proceeds to arbitration and synthesis only when at least one response
\* succeeded; when none did, the degraded FinalResponse (success=false,
\* confidence 0.2) is returned, its path carrying partial_failure_degraded.
C9_PartialFailure ==
    CheckDone =>
        /\ Len(responses) >= 1
        /\ trace.filed <=> 2 * Successes < Len(responses)
        /\ ~trace.filed => Proceeded
        /\ (trace.filed /\ trace.recommendation = "continue_degraded" /\ Successes >= 1) =>
               Proceeded /\ Marked(meta)
        /\ (trace.filed /\ trace.recommendation = "continue_degraded" /\ Successes = 0) =>
               DegradedReturn /\ Marked(result.execution_metadata)
        /\ (trace.filed /\ trace.recommendation # "continue_degraded") => DegradedReturn

\* one response of three succeeded, continue_degraded was recommended, and
\* the request went on to return a successful FinalResponse
C9_Witness ==
    /\ LayerReturned /\ CheckDone
    /\ Len(responses) = 3 /\ Successes = 1
    /\ trace.filed /\ trace.recommendation = "continue_degraded"
    /\ Marked(result.execution_metadata) /\ result.success
    /\ {"arbitration", "synthesis"} \subseteq Range(result.execution_metadata.execution_path)

(***************************************************************************)
(* Claims about the breakers (checked under SpecCB).                       *)
(***************************************************************************)
\* the documented defaults: (failure_threshold, recovery_timeout, success_threshold)
DocumentedDefaults(c) ==
    CASE c = "analysis_engine"   -> <<3, 30, 2>>
      [] c = "task_decomposer"   -> <<3, 45, 2>>
      [] c = "arbitration_layer" -> <<5, 60, 3>>
      [] c = "synthesis_layer"   -> <<3, 30, 2>>

\* C6: from CLOSED with no recorded failure, a run of F consecutive failed
\* calls leaves the breaker OPEN and any shorter run leaves it CLOSED, with
\* F = 3, 3, 5, 3 for analysis, decomposer, arbitration, synthesis.
C6_ThresholdOpens ==
    \A c \in Components :
        LET F == DocumentedDefaults(c)[1]
        IN /\ (streak[c] >= 0 /\ streak[c] < F) => cb[c].state = "CLOSED"
           /\ streak[c] >= F => (streak[c] = F /\ cb[c].state = "OPEN")

\* every breaker has just been opened by its F-th consecutive failure
C6_Witness ==
    \A c \in Components : streak[c] = DocumentedDefaults(c)[1] /\ cb[c].state = "OPEN"

CallStepOn(c) == lastCall'.tog # lastCall.tog /\ lastCall'.comp = c

\* C7: an OPEN breaker lets no call through and stays OPEN until the recovery
\* timeout has elapsed; the first call after that runs in HALF_OPEN (it is let
\* through, and leaves the breaker HALF_OPEN on success, OPEN with the wait
\* restarted on failure); a failure in HALF_OPEN reopens it and restarts the
\* wait; CLOSED is entered only from HALF_OPEN by the success_threshold-th
\* success, never from OPEN.
C7_Step ==
    \A c \in Components :
        LET T == DocumentedDefaults(c)[2]
            S == DocumentedDefaults(c)[3]
        IN /\ (cb[c].state = "OPEN" /\ cb[c].age < T) =>
                  /\ cb'[c].state = "OPEN"
                  /\ CallStepOn(c) => (~lastCall'.allowed /\ cb'[c].age = cb[c].age)
           /\ (cb[c].state = "OPEN" /\ cb[c].age >= T /\ CallStepOn(c)) =>
                  /\ lastCall'.allowed
                  /\ lastCall'.ok => (cb'[c].state = "HALF_OPEN" /\ cb'[c].success_count = 1)
                  /\ ~lastCall'.ok => (cb'[c].state = "OPEN" /\ cb'[c].age = 0)
           /\ (cb[c].state = "HALF_OPEN" /\ CallStepOn(c) /\ ~lastCall'.ok) =>
                  (cb'[c].state = "OPEN" /\ cb'[c].age = 0)
           /\ (cb[c].state # "CLOSED" /\ cb'[c].state = "CLOSED") =>
                  /\ cb[c].state = "HALF_OPEN"
                  /\ cb[c].success_count = S - 1
                  /\ CallStepOn(c) /\ lastCall'.ok
           /\ (cb[c].state = "HALF_OPEN" /\ cb[c].success_count < S - 1) => cb'[c].state # "CLOSED"

C7_BreakerRecovery == [][C7_Step]_vars

\* the arbitration breaker was closed again by a successful call in HALF_OPEN
\* while the synthesis breaker, reopened from HALF_OPEN, waits anew
C7_Witness ==
    /\ lastCall.comp = "arbitration_layer" /\ lastCall.pre = "HALF_OPEN" /\ lastCall.ok
    /\ cb["arbitration_layer"].state = "CLOSED"
    /\ cb["synthesis_layer"].state = "OPEN" /\ cb["synthesis_layer"].age = TickSeconds

(***************************************************************************)
(* Claims about the fallbacks of the stages (checked under Spec).          *)
(***************************************************************************)
\* C11: whenever the decomposition stage fails, process_request continues
\* with exactly one subtask, whose content is the original input and whose
\* task_type is REASONING.
C11_FallbackReasoning ==
    "decomposition" \in trace.failed =>
        /\ Len(subtasks) = 1
        /\ subtasks[1].content = "original"
        /\ subtasks[1].task_type = "reasoning"

Planned == "execution_planning" \in Range(meta.execution_path)

\* the places of subtask id in the groups of the plan
PlacesOf(id) ==
    {<<g, k>> \in (DOMAIN plan.parallel_groups) \X (1..Len(subtasks)) :
        k <= Len(plan.parallel_groups[g]) /\ plan.parallel_groups[g][k] = id}

\* C12: when determine_parallelism fails, the plan executed has one group
\* per subtask in the decomposer's order and sequential_order lists the ids
\* in that order; in every plan executed each subtask of the request is in
\* exactly one group.
C12_SequentialFallback ==
    Planned =>
        /\ "planning" \in trace.failed =>
               /\ Len(plan.parallel_groups) = Len(subtasks)
               /\ \A i \in DOMAIN subtasks : plan.parallel_groups[i] = <<subtasks[i].id>>
               /\ plan.sequential_order = [i \in DOMAIN subtasks |-> subtasks[i].id]
        /\ \A i \in DOMAIN subtasks : Cardinality(PlacesOf(subtasks[i].id)) = 1

\* the router failed on two subtasks and both were executed, one after the other
C12_Witness ==
    /\ "planning" \in trace.failed /\ Len(subtasks) = 2
    /\ Len(plan.parallel_groups) = 2 /\ Len(responses) = 2
    /\ "subtask_execution" \in Range(meta.execution_path)

(***************************************************************************)
(* Claims about the execution stage (checked under Spec and SpecWide).     *)
(***************************************************************************)
RECURSIVE Flatten(_)
Flatten(groups) == IF groups = << >> THEN << >> ELSE Head(groups) \o Flatten(Tail(groups))

ResponseIds == [i \in DOMAIN responses |-> responses[i].subtask_id]

\* the execution stage of the request is over
ExecutionOver == Planned /\ pc # "execute"

\* group g had a success rate below 0.5
GroupLow(g) ==
    LET grp == plan.parallel_groups[g]
    IN 2 * Cardinality({i \in DOMAIN responses :
                           responses[i].success /\ responses[i].subtask_id \in Range(grp)}) < Len(grp)

\* after group k, more than half of the groups so far had a low rate, in FAST mode
Stops(k) == req.mode = "fast" /\ 2 * Cardinality({g \in 1..k : GroupLow(g)}) > k

\* the last group the claim lets the stage execute
LastGroup ==
    LET n == Len(plan.parallel_groups)
    IN IF \E k \in 1..n : Stops(k)
       THEN CHOOSE k \in 1..n : Stops(k) /\ \A j \in 1..(k - 1) : ~Stops(j)
       ELSE n

\* C13: groups are executed in plan order; in FAST mode no further group is
\* scheduled once more than half of the groups executed so far had a success
\* rate below 0.5; in the other modes every group of the plan is executed.
C13_GroupsInOrder ==
    ExecutionOver => ResponseIds = Flatten(SubSeq(plan.parallel_groups, 1, LastGroup))

\* during the execution stage the responses so far are those of the members
\* executed so far, one each, in the order of the plan
C17_Inv ==
    (pc = "execute" /\ cursor.group <= Len(plan.parallel_groups)) =>
        /\ Len(responses) =
               Len(Flatten(SubSeq(plan.parallel_groups, 1, cursor.group - 1))) + cursor.member - 1
        /\ ResponseIds = SubSeq(Flatten(plan.parallel_groups), 1, Len(responses))

\* a step of the execution stage leaves the responses already given as they are
C17_Step ==
    (pc = "execute" /\ pc' = "execute") =>
        /\ Len(responses') >= Len(responses)
        /\ SubSeq(responses', 1, Len(responses)) = responses

\* C17: within an executed group the failure of one subtask never prevents
\* the other members from being executed and never changes their results:
\* every member yields exactly one AgentResponse carrying that member's id.
C17_PeersUnaffected == []C17_Inv /\ [][C17_Step]_vars

\* in a group of two the first member failed by an exception and the second
\* was executed and succeeded
C17_Witness ==
    /\ Planned /\ Len(plan.parallel_groups) = 1 /\ Len(plan.parallel_groups[1]) = 2
    /\ Len(responses) = 2
    /\ responses[1].model_used = "unknown" /\ ~responses[1].success
    /\ responses[2].success /\ responses[2].subtask_id = plan.parallel_groups[1][2]

\* the position of process_request at which component c is called through its breaker
StageOf(c) ==
    CASE c = "analysis_engine"   -> "analysis"
      [] c = "task_decomposer"   -> "decompose"
      [] c = "arbitration_layer" -> "arbitrate"
      [] c = "synthesis_layer"   -> "synthesize"

C18_Step ==
    /\ pc = "execute" => cb' = cb
    /\ \A c \in Components :
           (cb'[c].state # cb[c].state \/ cb'[c].failure_count # cb[c].failure_count) =>
               pc = StageOf(c)

\* C18: failures of individual subtask executions never change the state or
\* the failure count of any breaker; only the analysis, decomposition,
\* arbitration and synthesis stage calls are counted by the breakers.
C18_SubtasksLeaveBreakers == [][C18_Step]_vars

\* the failed decomposition was counted by its breaker, the subtask that then
\* timed out by none
C18_Witness ==
    /\ pc = "check" /\ "decomposition" \in trace.failed
    /\ Len(responses) = 1 /\ responses[1].model_used = "timeout"
    /\ cb["task_decomposer"].failure_count = 1
    /\ \A c \in Components \ {"task_decomposer"} : cb[c] = NewBreaker

\* C19: the subtasks of one parallel group are executed concurrently by one
\* worker per subtask, the groups one after another: once the execution of a
\* member of the group under way has begun, that of every member has.
C19_ConcurrentWorkers ==
    (pc = "execute" /\ cursor.group <= Len(plan.parallel_groups)) =>
        LET group == Range(plan.parallel_groups[cursor.group])
        IN Started \cap group # {} => group \subseteq Started

(***************************************************************************)
(* Claims about arbitration, synthesis and the returned response.          *)
(***************************************************************************)
\* the entries process_request appends to execution_path for completed stages
\* and for a partial failure
PathStages ==
    {"task_creation", "task_decomposition", "execution_planning", "subtask_execution",
     "partial_failure_degraded", "arbitration", "synthesis"}

\* the path carries an entry besides those: a mark of degraded arbitration
ArbitrationMarked(m) == \E e \in Range(m.execution_path) : e \notin PathStages

\* C14: when two or more subtasks succeeded and arbitration fails, the
\* request is not failed: exactly the first successful response is handed to
\* synthesis, and the execution_path of the returned response is marked to
\* show that arbitration was degraded.
C14_ArbitrationDegraded ==
    "arbitration" \in trace.failed =>
        /\ validated = SubSeq(Succeeded(responses), 1, 1)
        /\ (LayerReturned /\ result.kind = "response" /\ result.success) =>
               ArbitrationMarked(result.execution_metadata)

\* the synthesis stage of the request failed and nothing after it did
SynthesisFailedOnly ==
    /\ "synthesis" \in trace.failed
    /\ trace.failed \cap {"metadata", "metadata_raise"} = {}

\* C15: when the synthesis stage fails, with at least one validated response
\* the result has the first validated response's content and its
\* self-assessed confidence; with none it has success=false and the
\* error_message "No responses available for synthesis" (the fallback is
\* also applied to the empty list, which arbitration as modelled never yields).
C15_SynthesisFallback ==
    /\ SynthesisFailedOnly =>
           /\ validated # << >> =>
                  /\ result.content = Content(validated[1])
                  /\ result.overall_confidence = Confidence(validated[1].model_used)
           /\ validated = << >> =>
                  /\ ~result.success
                  /\ result.error_message = <<"No responses available for synthesis">>
    /\ ~SynthesisFallback(<< >>).success
    /\ SynthesisFallback(<< >>).error_message = <<"No responses available for synthesis">>

\* synthesize raised on two validated responses and the first one's content
\* was returned with success
C15_Witness ==
    /\ LayerReturned /\ SynthesisFailedOnly
    /\ <<"synthesis_layer", "synthesize">> \in trace.invoked
    /\ Len(validated) = 2
    /\ result.success /\ result.content = Content(validated[1])

\* C16: every FinalResponse that process_request returns with success=false
\* has a non-empty error_message and carries the execution metadata gathered
\* up to the failure: its execution_path lists the stages completed before.
C16_FailureCarriesMetadata ==
    (LayerReturned /\ result.kind = "response" /\ ~result.success) =>
        /\ result.error_message # << >>
        /\ result.execution_metadata.execution_path = meta.execution_path

FullPath ==
    <<"task_creation", "task_decomposition", "execution_planning", "subtask_execution",
      "arbitration", "synthesis">>

\* the place of a path entry in the pipeline (0: not a stage name)
StageRank(s) ==
    CASE s = "task_creation" -> 1
      [] s = "task_decomposition" -> 2
      [] s = "execution_planning" -> 3
      [] s = "subtask_execution" -> 4
      [] s = "partial_failure_degraded" -> 5
      [] s = "arbitration" -> 6
      [] s = "synthesis" -> 7
      [] OTHER -> 0

\* stage names in pipeline order, each at most once, partial_failure_degraded
\* only directly after subtask_execution
InPipelineOrder(path) ==
    /\ \A i \in DOMAIN path : StageRank(path[i]) > 0
    /\ \A i \in DOMAIN path : i > 1 => StageRank(path[i - 1]) < StageRank(path[i])
    /\ \A i \in DOMAIN path :
           path[i] = "partial_failure_degraded" => (i > 1 /\ path[i - 1] = "subtask_execution")

\* every stage of the request succeeded, every subtask included
AllStagesSucceeded == LayerReturned /\ trace.failed = {}

\* C21: when every stage succeeds the returned FinalResponse has the path
\* task_creation, task_decomposition, execution_planning, subtask_execution,
\* arbitration, synthesis and parallel_executions equal to the number of
\* groups of the plan; on every run the recorded path lists stage names in
\* pipeline order, each at most once, partial_failure_degraded only directly
\* after subtask_execution.
C21_ExecutionPath ==
    /\ AllStagesSucceeded =>
           /\ result.kind = "response" /\ result.success
           /\ result.execution_metadata.execution_path = FullPath
           /\ result.execution_metadata.parallel_executions = Len(plan.parallel_groups)
    /\ InPipelineOrder(meta.execution_path)
    /\ InPipelineOrder(result.execution_metadata.execution_path)

\* a request of two subtasks in two groups went through every stage
C21_Witness ==
    /\ AllStagesSucceeded /\ Len(subtasks) = 2 /\ Len(plan.parallel_groups) = 2
    /\ result.execution_metadata.execution_path = FullPath
    /\ result.execution_metadata.parallel_executions = 2

(***************************************************************************)
(* Claims about the events of the bridge (checked under Spec, on requests  *)
(* whose layer has the group hook and whose hooks find an event loop).     *)
(***************************************************************************)
\* the bridge handles the request in the setting in which its hooks broadcast
Broadcasting == req.via = "bridge" /\ req.hasGroupHook /\ req.loop

\* the execution_progress events that carry subtask id
ProgressOf(id) ==
    {i \in EventsOf(req.rid, "execution_progress") : events[i].detail[1] = ToString(id)}

SaysTimedOut(message) == message = "Execution timed out"

Arbitrated == "arbitration" \in Range(meta.execution_path)

C25_ConflictCount ==
    /\ <<"arbitration_layer", "arbitrate">> \in trace.invoked /\ "arbitration" \notin trace.failed
           => Cardinality(EventsOf(req.rid, "arbitration_decision")) = 1
    /\ \A i \in EventsOf(req.rid, "arbitration_decision") :
           LET d == events[i].detail
               rs == Succeeded(responses)
               n == Cardinality(ConflictingSubtasks(rs))
           IN /\ d.conflictsDetected = Len(d.decisions)
              /\ d.conflictsDetected = n
              /\ d.conflictingResults = IF n > 0 THEN [k \in DOMAIN rs |-> ResponseId(rs[k])] ELSE << >>

\* of three responses two answered subtask 1 on different models: one
\* conflict, resolved for the more confident M1, all three responses listed
C25_Witness ==
    /\ Len(responses) = 3
    /\ \E i \in EventsOf(req.rid, "arbitration_decision") :
           /\ events[i].detail.conflictsDetected = 1
           /\ events[i].detail.decisions[1].chosenResponseId = <<"1", "M1">>
           /\ Len(events[i].detail.conflictingResults) = 3

\* the assignments of a routing_complete event that name subtask id
AssignmentsOf(e, id) == {j \in DOMAIN e.detail : e.detail[j] = ToString(id)}

TimedOut == main.state = "timed_out"

C28_Inv ==
    TimedOut =>
        /\ main.response.kind = "response" /\ ~main.response.success
        /\ main.response.error_message = <<"Request timed out">>

C28_Step == TimedOut => (pc' = pc /\ cursor' = cursor /\ main'.response = main.response)

\* C28: a request still running at the overall deadline gives its caller a
\* timeout failure and its remaining work is cancelled: once the timeout
\* response is returned no further stage of the request executes, and a
\* result it produces later is discarded.
C28_TimeoutCancels == []C28_Inv /\ [][C28_Step]_vars

(***************************************************************************)
(* Claims about handle_failure (checked under SpecFailure).                *)
(***************************************************************************)
\* C29: handle_failure returns a fallback strategy for every failure type
\* and never returns nothing: model_unavailable yields alternative_model,
\* rate_limit yields wait_and_retry, quality_failure yields upgrade_model
\* with a single retry, timeout and unknown types yield a strategy that retries.
C29_FallbackStrategies ==
    \A i \in DOMAIN handled :
        LET t == handled[i].failure.failure_type
            st == handled[i].strategy
        IN /\ st # NoStrategy
           /\ t = "model_unavailable" => st.strategy_type = "alternative_model"
           /\ t = "rate_limit" => st.strategy_type = "wait_and_retry"
           /\ t = "quality_failure" => st = FallbackStrategy("upgrade_model", 1)
           /\ t \in {"timeout", "unknown"} => st.retry_count >= 1

(***************************************************************************)
(* Claims about the user statistics (checked under SpecStats).             *)
(***************************************************************************)
\* C30: after a request of the user has completed, get_user_stats reflects
\* it: the cached entry is invalidated on completion, so statistics computed
\* before a completion are never served after it.
C30_StatsAfterCompletion ==
    /\ stats.last.present => stats.last.served.responses = stats.last.responses
    /\ stats.cache.present => stats.cache.responses = stats.responses

C32_MonotoneInLength ==
    \A i, j \in DOMAIN cost.direct :
        cost.direct[i].n < cost.direct[j].n
            => \A mode \in ExecutionModes :
                   cost.direct[i].estimates[mode] <= cost.direct[j].estimates[mode]

\* two quotes, the second for a longer request and dearer in every mode
C32_Witness ==
    /\ Len(cost.direct) = 2
    /\ cost.direct[1].n < cost.direct[2].n
    /\ \A mode \in ExecutionModes :
           cost.direct[1].estimates[mode] < cost.direct[2].estimates[mode]

\* C38: for every request length n and any prior sequence of estimate
\* calls, estimate_all_modes_cached(n) returns the same three estimates as
\* estimate_all_modes(n): a cache hit never returns an estimate computed for
\* a different length, and cache read or write failures only cause
\* recomputation.
C38_CachedEqualsUncached ==
    cost.cached.present
        => cost.cached.estimates = estimate_all_modes(cost.prices, cost.cached.n)

(***************************************************************************)
(* Claims about the request history (checked under SpecHistory).           *)
(***************************************************************************)
\* the answer to the last query has the right size and counts
C33_PageSize ==
    history.response.code = 200 =>
        LET n == Cardinality(Matching(history.requests, history.query.mode))
            p == history.query.page
            l == history.query.limit
        IN /\ Len(history.response.items) = Min(l, IF n - (p - 1) * l > 0 THEN n - (p - 1) * l ELSE 0)
           /\ history.response.total = n
           /\ history.response.pages = (IF n = 0 THEN 0 ELSE (n + l - 1) \div l)

\* a walk through all the pages returns every matching request once, newest first
C33_WalkCovers ==
    (history.response.code = 200 /\ Len(history.walk) = history.response.pages /\ Len(history.walk) > 0) =>
        LET all == Flatten(history.walk)
        IN /\ {all[i] : i \in DOMAIN all} = Matching(history.requests, history.query.mode)
           /\ \A i, j \in DOMAIN all :
                  i < j => all[i] # all[j]
                           /\ history.requests[all[i]].created_at >= history.requests[all[j]].created_at

\* page < 1 or a limit outside 1..100 is rejected with 400
C33_Rejected ==
    (history.response.code # 0
     /\ (history.query.page < 1 \/ history.query.limit < 1 \/ history.query.limit > MaxLimit))
        => history.response.code = 400

\* C33: for a user with N requests matching the filters, the history
\* endpoint with page P >= 1 and 1 <= limit L <= 100 returns exactly
\* min(L, max(0, N - (P-1)L)) items with total = N and pages = ceil(N/L) (0
\* when N = 0); requesting pages 1..pages in turn returns every matching
\* request exactly once, newest first; and page < 1 or a limit outside
\* 1..100 is rejected with 400.
C33_Pagination == C33_PageSize /\ C33_WalkCovers /\ C33_Rejected

(***************************************************************************)
(* Claims about the skipping of subtasks (checked under Spec).             *)
(***************************************************************************)
\* the subtask that _execute_single_subtask has just answered was skipped
LastSkipped ==
    LET r == responses[Len(responses)]
    IN ~r.success /\ r.model_used = "skipped" /\ r.error_message = "Skipped due to system degradation"

\* C34: a subtask is skipped without being executed (reported as a failed
\* AgentResponse with reason system_degraded) if and only if the resilience
\* manager's health is degraded, the mode is FAST, and the subtask's
\* priority is LOW or MEDIUM; HIGH-priority subtasks and subtasks in BALANCED
\* or BEST_QUALITY mode are always attempted.
C34_SkippedWhenDegraded ==
    trace.gate # NoGate =>
        /\ LastSkipped <=> (trace.gate.health = "degraded" /\ req.mode = "fast"
                            /\ trace.gate.priority \in {"low", "medium"})
        /\ (trace.gate.priority = "high" \/ req.mode # "fast") => ~LastSkipped

\* a subtask of low priority skipped, and one of high priority not skipped
\* under the same health and mode
C34_Witness ==
    /\ trace.gate.health = "degraded" /\ req.mode = "fast"
    /\ Len(responses) >= 2
    /\ trace.gate.priority = "high" /\ ~LastSkipped
    /\ responses[Len(responses) - 1].model_used = "skipped"

(***************************************************************************)
(* Claims about the status of a request (checked under SpecRequests).      *)
(***************************************************************************)
\* a request is pending while its task runs; once the task has ended it is
\* completed exactly when the bridge returned success, failed otherwise, and
\* completed_at is set
C35_Inv ==
    \A i \in DOMAIN rows :
        /\ rows[i].task = "running" => rows[i].status = "pending"
        /\ rows[i].task = "ended" =>
               /\ rows[i].status = (IF rows[i].bridge = "success" THEN "completed" ELSE "failed")
               /\ rows[i].completed_at

\* a request starts pending, and a completed or failed one keeps its status
C35_Step ==
    /\ \A i \in DOMAIN rows' : i \notin DOMAIN rows => rows'[i].status = "pending"
    /\ \A i \in DOMAIN rows :
           rows[i].status \in {"completed", "failed"} => rows'[i].status = rows[i].status

\* C35: every request created by the process endpoint starts with status
\* "pending" and, once its background processing ends, has status
\* "completed" exactly when the bridge returned a FinalResponse with
\* success=true and "failed" otherwise; once "completed" or "failed" the
\* status never changes again, completed_at is set, and no request stays
\* "pending" after its background task has finished.
C35_StatusLifecycle == []C35_Inv /\ [][C35_Step]_vars

(***************************************************************************)
(* Claims about AICouncil.process_request (checked under SpecMain).        *)
(***************************************************************************)
\* C36: AICouncil.process_request never raises to its caller: whether the
\* orchestration layer returns, raises any exception or does not finish
\* within the configured timeout, the caller receives a FinalResponse, with
\* success=false and a populated error_message in the last two cases.
C36_NeverRaises ==
    main.state \in {"returned", "timed_out"} =>
        /\ main.response.kind = "response"
        /\ (main.state = "returned" /\ result.kind = "response") => main.response = result
        /\ (main.state = "timed_out" \/ result.kind = "raised") =>
               ~main.response.success /\ main.response.error_message # << >>

\* the layer raised and the caller got an error response
C36_Witness ==
    /\ main.state = "returned" /\ result.kind = "raised"
    /\ main.response.kind = "response" /\ ~main.response.success

(***************************************************************************)
(* Claims about the bridge's error handling (checked under Spec).          *)
(***************************************************************************)
\* the step in which the bridge's process_request returns
BridgeReturns == req'.via = "bridge" /\ pc' = "done" /\ (pc = "thread_done" \/ reqNo' # reqNo)
\* ... after the council's creation, the hooks' installation or the orchestration raised
RaisedInside == (pc = "thread_done" /\ result.kind = "raised") \/ reqNo' # reqNo

C37_Step ==
    BridgeReturns =>
        /\ result'.kind = "response"
        /\ req'.current_request_id = 0 /\ pending' = << >>
        /\ RaisedInside =>
               /\ events' # << >>
               /\ events'[Len(events')].type = "error" /\ events'[Len(events')].rid = req'.rid
               /\ ~result'.success
               /\ result'.error_message # << >> /\ result'.error_message[1] = "Processing failed: "

\* C37: whenever council creation, hook installation or orchestration
\* raises inside CouncilOrchestrationBridge.process_request, an error event
\* is broadcast for the request id, a FinalResponse with success=false and an
\* error_message beginning "Processing failed" is returned instead of an
\* exception, and after the call returns by any path current_request_id is
\* None and the pending routing assignments are empty.
C37_BridgeErrors == [][C37_Step]_vars

\* the orchestration raised (its analysis failed) and the bridge has returned
C37_Witness ==
    /\ req.via = "bridge" /\ pc = "done" /\ "analysis" \in trace.failed
    /\ events # << >> /\ events[Len(events)].type = "error"
    /\ ~result.success /\ result.error_message[1] = "Processing failed: "
    /\ req.current_request_id = 0 /\ pending = << >>

(***************************************************************************)
(* Claims about empty parallel groups (checked under Spec).                *)
(***************************************************************************)
\* the execution stage stands at a group without subtasks
AtEmptyGroup ==
    /\ pc = "execute" /\ cursor.group <= Len(plan.parallel_groups)
    /\ Len(plan.parallel_groups[cursor.group]) = 0

\* the step from an empty group: on to the next group, nothing lost, no error
C39_Step ==
    AtEmptyGroup =>
        /\ pc' = "execute" /\ result' = result
        /\ responses' = responses
        /\ cursor'.group = cursor.group + 1

\* C39: if the execution plan contains a parallel group with no subtasks,
\* the execution stage passes over it without error: the responses already
\* collected from earlier groups are kept and the later groups of the plan
\* are still executed.
C39_EmptyGroupPassed == [][C39_Step]_vars

=============================================================================
